---- MODULE Spec2Model ----
(***************************************************************************)
(* Model of the trading-watchlist pipeline: the RVOL baseline engine       *)
(* (watchlist/rvol.py), its day-level cache (watchlist/db.py), the filter   *)
(* funnel of build_watchlist (watchlist/builder.py), the closed-market      *)
(* fallback of main (watchlist/cli.py), the requests of the float and news  *)
(* providers (watchlist/float_provider.py, watchlist/news.py) and the       *)
(* grading of a row (watchlist/scoring.py, watchlist/sanity.py).            *)
(*                                                                          *)
(* Conventions.                                                             *)
(*   - Text that the code normalises or parses (session, method, bar_size)  *)
(*     is a sequence of one-character strings, so that strip/upper/lower/   *)
(*     split/int are computed and not assumed.                              *)
(*   - An Optional value is <<>> (None) or <<v>>.                           *)
(*   - A float is an exact rational [n |-> numerator, d |-> denominator],   *)
(*     d > 0, compared by cross-multiplication.                             *)
(*   - A timestamp is a number of minutes since 00:00 UTC of day 0; day 0   *)
(*     is a Monday.  New York local time is UTC minus NyOffsetMin.          *)
(***************************************************************************)
EXTENDS Integers, Sequences, FiniteSets, TLC

VARIABLES
    \* ---- RVOL engine (pure functions applied to drawn inputs)
    rv_bars,      \* the bars handed to the engine: set of [ts, vol]
    rv_now,       \* now_ny of the call, as a UTC timestamp
    rv_cfg,       \* the run's RVOL settings: [session, bar_size, min_history_days]
    rv_curve,     \* Optional BaselineCurve handed to compute_rvol_time_of_day
    rv_built,     \* Optional inputs of the build that made rv_curve
    rv_res,       \* Optional last compute over rv_bars, rv_now, rv_curve:
                  \* its other inputs and its result
    \* ---- baseline cache (get_or_build_baseline_curve over the store)
    clock,        \* wall clock: [min |-> UTC minute, us |-> microsecond part]
    now_run,      \* now_ny captured by the running build_watchlist (UTC minute)
    store,        \* rows of table baseline_curves
    c_bars,       \* bars cached for the symbol
    prevCall,     \* Optional record of the call before the last one
    lastCall,     \* Optional record of the last get_or_build call
    rebuilds,     \* set of [key, day, n]: rebuilds per caller key and NY day
    \* ---- filter funnel (build_watchlist)
    fn,           \* the state of the running build: a record, see FnIdle
    \* ---- closed-market fallback (main)
    fb_clock,     \* wall clock in hours
    fb_file,      \* Optional [payload, mtime]: out/watchlist.json
    fb_db,        \* Optional [payload, generated]: newest row of watchlist_runs
    fb_last,      \* Optional record of the last run of main
    \* ---- provider requests (float_provider.py, news.py)
    rt,           \* the state of one provider call: a record, see RtInit
    \* ---- pure functions on drawn arguments (scoring.py, sanity.py, rvol.py)
    pf            \* [fun, arg, out]: the function, its argument, Optional result

rvVars == <<rv_bars, rv_now, rv_cfg, rv_curve, rv_built, rv_res>>
cacheVars == <<clock, now_run, store, c_bars, prevCall, lastCall, rebuilds>>
fnVars == <<fn>>
fbVars == <<fb_clock, fb_file, fb_db, fb_last>>
rtVars == <<rt>>
pfVars == <<pf>>
vars == <<rv_bars, rv_now, rv_cfg, rv_curve, rv_built, rv_res,
          clock, now_run, store, c_bars, prevCall, lastCall, rebuilds,
          fn, fb_clock, fb_file, fb_db, fb_last, rt, pf>>

----------------------------------------------------------------------------
(* Optional values *)

None == <<>>
Some(x) == <<x>>
IsNone(o) == o = <<>>
IsSome(o) == o # <<>>
Val(o) == o[1]

(* Exact rationals standing for Python floats *)

Q(n, d) == [n |-> n, d |-> d]
QInt(i) == [n |-> i, d |-> 1]
QEq(a, b) == a.n * b.d = b.n * a.d
QLt(a, b) == a.n * b.d < b.n * a.d
QLe(a, b) == a.n * b.d <= b.n * a.d
QIsZero(a) == a.n = 0
\* The integer i divided by the nonzero rational b.
QDivInt(i, b) == IF b.n > 0 THEN Q(i * b.d, b.n) ELSE Q((0 - i) * b.d, 0 - b.n)

Max(a, b) == IF a >= b THEN a ELSE b
Min(a, b) == IF a <= b THEN a ELSE b

RECURSIVE SumSeq(_)
SumSeq(s) == IF s = <<>> THEN 0 ELSE Head(s) + SumSeq(Tail(s))

----------------------------------------------------------------------------
(* Text: str.strip, str.upper, str.lower, str.split, int() *)

LowerChars == <<"a","b","c","d","e","f","g","h","i","j","k","l","m",
                "n","o","p","q","r","s","t","u","v","w","x","y","z">>
UpperChars == <<"A","B","C","D","E","F","G","H","I","J","K","L","M",
                "N","O","P","Q","R","S","T","U","V","W","X","Y","Z">>
DigitChars == <<"0","1","2","3","4","5","6","7","8","9">>

OtherChars == <<" ", "+", "-", "_">>
Chars == {LowerChars[i] : i \in DOMAIN LowerChars} \cup {UpperChars[i] : i \in DOMAIN UpperChars}
         \cup {DigitChars[i] : i \in DOMAIN DigitChars} \cup {OtherChars[i] : i \in DOMAIN OtherChars}

IndexIn(chars, c) ==
    IF \E i \in DOMAIN chars : chars[i] = c
    THEN CHOOSE i \in DOMAIN chars : chars[i] = c
    ELSE 0

\* str.upper, str.lower and the value of a digit, character by character.
UpperChar == [c \in Chars |->
    IF IndexIn(LowerChars, c) > 0 THEN UpperChars[IndexIn(LowerChars, c)] ELSE c]
LowerChar == [c \in Chars |->
    IF IndexIn(UpperChars, c) > 0 THEN LowerChars[IndexIn(UpperChars, c)] ELSE c]
DigitOf == [c \in Chars |-> IndexIn(DigitChars, c) - 1]
Upper(s) == [i \in DOMAIN s |-> UpperChar[s[i]]]
Lower(s) == [i \in DOMAIN s |-> LowerChar[s[i]]]

IsSpace(c) == c = " "
IsDigit(c) == DigitOf[c] >= 0
DigitVal(c) == DigitOf[c]

RECURSIVE LStrip(_)
LStrip(s) == IF s # <<>> /\ IsSpace(Head(s)) THEN LStrip(Tail(s)) ELSE s
RECURSIVE RStrip(_)
RStrip(s) == IF s # <<>> /\ IsSpace(s[Len(s)]) THEN RStrip(SubSeq(s, 1, Len(s) - 1)) ELSE s
Strip(s) == RStrip(LStrip(s))

\* The first whitespace-delimited word of a stripped text, and what follows it.
RECURSIVE FirstWordLen(_)
FirstWordLen(s) == IF s = <<>> \/ IsSpace(Head(s)) THEN 0 ELSE 1 + FirstWordLen(Tail(s))
RECURSIVE SplitWs(_)
SplitWs(s) ==
    LET t == LStrip(s) IN
    IF t = <<>> THEN <<>>
    ELSE <<SubSeq(t, 1, FirstWordLen(t))>> \o SplitWs(SubSeq(t, FirstWordLen(t) + 1, Len(t)))

RECURSIVE DigitsValue(_)
DigitsValue(s) == IF s = <<>> THEN 0 ELSE DigitsValue(SubSeq(s, 1, Len(s) - 1)) * 10 + DigitVal(s[Len(s)])

AllDigits(s) == s # <<>> /\ \A i \in DOMAIN s : IsDigit(s[i])

\* int(text): None stands for ValueError.
ParseInt(s) ==
    IF AllDigits(s) THEN Some(DigitsValue(s))
    ELSE IF s # <<>> /\ Head(s) = "-" /\ AllDigits(Tail(s)) THEN Some(0 - DigitsValue(Tail(s)))
    ELSE IF s # <<>> /\ Head(s) = "+" /\ AllDigits(Tail(s)) THEN Some(DigitsValue(Tail(s)))
    ELSE None

\* re.match(r"^(\d+)", s): the longest leading run of digits.
RECURSIVE LeadingDigitsLen(_)
LeadingDigitsLen(s) == IF s = <<>> \/ ~IsDigit(Head(s)) THEN 0 ELSE 1 + LeadingDigitsLen(Tail(s))

\* Texts the model draws from.
T_RTH == <<"R","T","H">>
T_rth == <<"r","t","h">>
T_RTHPRE == <<"R","T","H","+","P","R","E">>
T_Empty == <<>>
T_mean == <<"m","e","a","n">>
T_median == <<"m","e","d","i","a","n">>
T_trimmed_mean == <<"t","r","i","m","m","e","d","_","m","e","a","n">>
T_Mean == <<"M","e","a","n">>
T_1min == <<"1"," ","m","i","n">>
T_130m == <<"1","3","0","m">>
T_30mins == <<"3","0"," ","m","i","n","s">>
T_195min == <<"1","9","5"," ","m","i","n">>
T_400min == <<"4","0","0"," ","m","i","n">>
T_0min == <<"0"," ","m","i","n">>
T_xmin == <<"x"," ","m","i","n">>

----------------------------------------------------------------------------
(* Clock arithmetic *)

MinPerDay == 24 * 60
NyOffsetMin == 4 * 60
RTH_OPEN == 9 * 60 + 30
RTH_CLOSE == 16 * 60
PRE_OPEN == 4 * 60

\* ts_utc.astimezone(NY), then .date() and the clock time in minutes.
ToNy(ts) == ts - NyOffsetMin
DateNy(ts) == ToNy(ts) \div MinPerDay
ClockNy(ts) == ToNy(ts) % MinPerDay
\* The UTC timestamp of New York clock minute m of day d.
AtNy(d, m) == d * MinPerDay + m + NyOffsetMin

----------------------------------------------------------------------------
(* rvol.py: statistics *)

RECURSIVE InsertSorted(_, _)
InsertSorted(x, s) ==
    IF s = <<>> THEN <<x>>
    ELSE IF x <= Head(s) THEN <<x>> \o s
    ELSE <<Head(s)>> \o InsertSorted(x, Tail(s))
RECURSIVE sorted(_)
sorted(vals) == IF vals = <<>> THEN <<>> ELSE InsertSorted(Head(vals), sorted(Tail(vals)))

mean(vals) == IF vals = <<>> THEN None ELSE Some(Q(SumSeq(vals), Len(vals)))

MedianOfSorted(ordered, mid) ==
    IF Len(ordered) % 2 = 1
    THEN Some(QInt(ordered[mid + 1]))
    ELSE Some(Q(ordered[mid] + ordered[mid + 1], 2))
median(vals) ==
    IF vals = <<>> THEN None ELSE MedianOfSorted(sorted(vals), Len(vals) \div 2)

\* trim_pct is given in hundredths (10 is 0.10); the clamp is to [0, 0.49].
TrimClampPct == 49
\* Lines 86-89: the mean of what is left, None when nothing is left.
MeanOfTrimmed(trimmed) ==
    IF trimmed = <<>> THEN None ELSE Some(Q(SumSeq(trimmed), Len(trimmed)))
\* Lines 83-89: trim = int(len(ordered) * pct) values are cut at each end.
TrimSorted(ordered, trim) ==
    IF trim * 2 >= Len(ordered) THEN Some(Q(SumSeq(ordered), Len(ordered)))
    ELSE MeanOfTrimmed(SubSeq(ordered, trim + 1, Len(ordered) - trim))
\* Line 81 without the upper clamp.
ClampPct_NoUpper(trim_pct) == Max(0, trim_pct)

\* Line 81: pct = max(0.0, min(trim_pct, 0.49)).
ClampPct(trim_pct) == Max(0, Min(trim_pct, TrimClampPct))
trimmed_mean(vals, trim_pct) ==
    IF vals = <<>> THEN None
    ELSE TrimSorted(sorted(vals), (Len(vals) * ClampPct(trim_pct)) \div 100)

CleanMethod(method) == Lower(Strip(IF method = <<>> THEN T_median ELSE method))

SelectClean(method_clean, vals, trim_pct) ==
    IF method_clean = T_mean THEN mean(vals)
    ELSE IF method_clean = T_trimmed_mean THEN trimmed_mean(vals, trim_pct)
    ELSE median(vals)
select_method(method, vals, trim_pct) == SelectClean(CleanMethod(method), vals, trim_pct)

----------------------------------------------------------------------------
(* rvol.py: sessions and slots *)

CleanSession(session) == Upper(Strip(IF session = <<>> THEN T_RTH ELSE session))

\* <<start, end>> clock minutes of the session.
session_times(session) ==
    IF CleanSession(session) = T_RTHPRE THEN <<PRE_OPEN, RTH_CLOSE>>
    ELSE <<RTH_OPEN, RTH_CLOSE>>

SpanOf(times) == times[2] - times[1]
session_minutes(session) == SpanOf(session_times(session))

\* Lines 193-198: int(parts[0]) of a text of two words or more.
MinutesOfWord(parsed) == IF IsSome(parsed) THEN Max(1, Val(parsed)) ELSE 1
\* Lines 199-205: the leading digits of a text of one word.
MinutesOfLead(lead) == IF lead # <<>> THEN Max(1, DigitsValue(lead)) ELSE 1
MinutesOfParts(s, parts) ==
    IF Len(parts) >= 2 THEN MinutesOfWord(ParseInt(parts[1]))
    ELSE MinutesOfLead(SubSeq(s, 1, LeadingDigitsLen(s)))
MinutesOfText(s) == IF s = <<>> THEN 1 ELSE MinutesOfParts(s, SplitWs(s))
parse_bar_minutes(bar_size) == MinutesOfText(Lower(Strip(bar_size)))

session_bar_count(session, bar_size) ==
    Max(1, session_minutes(session) \div parse_bar_minutes(bar_size))

\* Lines 125-128: None outside [start, end), else the minutes since start.
MinuteIndexAt(t, times) ==
    IF t < times[1] \/ t >= times[2] THEN None ELSE Some(t - times[1])
\* The same with the window closed at its end: [start, end].
MinuteIndexAt_ClosedEnd(t, times) ==
    IF t < times[1] \/ t > times[2] THEN None ELSE Some(t - times[1])

\* The window taken as closed at its end.
minute_index_in_session_ClosedEnd(now, session) ==
    MinuteIndexAt_ClosedEnd(ClockNy(now), session_times(session))

\* Optional minutes from the session start to now; None outside [start, end).
minute_index_in_session(now, session) ==
    MinuteIndexAt(ClockNy(now), session_times(session))

----------------------------------------------------------------------------
(* rvol.py: the exchange calendar and the day series *)

\* The exchange calendar (pandas_market_calendars): Monday to Friday.
IsTradingDay(d) == d >= 0 /\ d % 7 < 5

RECURSIVE SetToSortedSeq(_)
SetToSortedSeq(S) ==
    IF S = {} THEN <<>>
    ELSE LET m == CHOOSE x \in S : \A y \in S : x <= y
         IN <<m>> \o SetToSortedSeq(S \ {m})

\* days[-k:] of Python.
LastK(days, k) ==
    IF k > 0 THEN SubSeq(days, Max(1, Len(days) - k + 1), Len(days))
    ELSE IF k = 0 THEN days
    ELSE SubSeq(days, Min(Len(days), 0 - k) + 1, Len(days))

\* The trading days of [today - max(3 * lookback, 10), today), in order.
DaysBefore(today, lookback_days) ==
    SetToSortedSeq({d \in (today - Max(lookback_days * 3, 10))..today :
                       IsTradingDay(d) /\ d < today})

previous_trading_days(now, lookback_days) ==
    LastK(DaysBefore(DateNy(now), lookback_days), lookback_days)

RECURSIVE SumVol(_)
SumVol(B) ==
    IF B = {} THEN 0
    ELSE LET b == CHOOSE x \in B : TRUE IN b.vol + SumVol(B \ {b})

RECURSIVE RunningSum(_, _)
RunningSum(vols, running) ==
    IF vols = <<>> THEN <<>>
    ELSE <<running + Head(vols)>> \o RunningSum(Tail(vols), running + Head(vols))

\* The bars of the day inside the session window [start, end)
\* (found_any is: this set is not empty).
InSessionBars(bars, date_ny, times) ==
    {b \in bars : /\ DateNy(b.ts) = date_ny
                  /\ ClockNy(b.ts) >= times[1]
                  /\ ClockNy(b.ts) < times[2]}

\* idx = mins_since // bar_minutes of a bar.
SlotOfBar(b, start, bar_minutes) == (ClockNy(b.ts) - start) \div bar_minutes

\* The bars added to vols[i - 1].
SlotBars(inSess, start, bar_minutes, i) ==
    {b \in inSess : SlotOfBar(b, start, bar_minutes) = i - 1}

SlotVolumes(inSess, start, bar_minutes, expected_bars) ==
    [i \in 1..expected_bars |-> SumVol(SlotBars(inSess, start, bar_minutes, i))]

MissingBars(inSess, start, bar_minutes, expected_bars) ==
    Cardinality({i \in 1..expected_bars : SlotBars(inSess, start, bar_minutes, i) = {}})

\* The series with the slot volumes in place of their running sum.
DayVolumeSeries_SlotVolumes(date_ny, vols, missing_bars) ==
    [date |-> date_ny, vol_1m |-> vols, cumvol_1m |-> vols,
     missing_bars |-> missing_bars]

\* Lines 252-264.
DayVolumeSeries(date_ny, vols, missing_bars) ==
    [date |-> date_ny, vol_1m |-> vols, cumvol_1m |-> RunningSum(vols, 0),
     missing_bars |-> missing_bars]

DaySeriesOf(date_ny, inSess, start, bar_minutes, expected_bars) ==
    IF inSess = {} THEN None
    ELSE Some(DayVolumeSeries(date_ny,
                  SlotVolumes(inSess, start, bar_minutes, expected_bars),
                  MissingBars(inSess, start, bar_minutes, expected_bars)))

DaySeriesIn(bars, date_ny, times, bar_minutes) ==
    DaySeriesOf(date_ny, InSessionBars(bars, date_ny, times), times[1], bar_minutes,
                Max(1, SpanOf(times) \div bar_minutes))

\* Optional DayVolumeSeries.
get_intraday_1m_volume(bars, date_ny, session, bar_size) ==
    DaySeriesIn(bars, date_ny, session_times(session), parse_bar_minutes(bar_size))

----------------------------------------------------------------------------
(* rvol.py: build_baseline_curve_from_bars *)

\* Lines 283-290: a day without a series is left out.
SeriesIfAny(series) == IF IsNone(series) THEN <<>> ELSE <<Val(series)>>

RECURSIVE SeriesOfDays(_, _, _, _)
SeriesOfDays(days, bars, session, bar_size) ==
    IF days = <<>> THEN <<>>
    ELSE SeriesIfAny(get_intraday_1m_volume(bars, Head(days), session, bar_size))
         \o SeriesOfDays(Tail(days), bars, session, bar_size)

RECURSIVE SamplesAt(_, _)
SamplesAt(series_list, t) ==
    IF series_list = <<>> THEN <<>>
    ELSE (IF t < Len(Head(series_list).cumvol_1m)
          THEN <<Head(series_list).cumvol_1m[t + 1]>> ELSE <<>>)
         \o SamplesAt(Tail(series_list), t)

\* base = select_method(...) or 0.0
BaseOrZero(sel) == IF IsNone(sel) \/ QIsZero(Val(sel)) THEN QInt(0) ELSE Val(sel)
\* if base < min_baseline: base = float(min_baseline)
Floored(base, min_baseline) ==
    IF QLt(base, QInt(min_baseline)) THEN QInt(min_baseline) ELSE base

\* The value of the slot without the floor.
BaselineAt_NoFloor(series_list, t, method, trim_pct, min_baseline) ==
    BaseOrZero(select_method(method, SamplesAt(series_list, t), trim_pct))

BaselineAt(series_list, t, method, trim_pct, min_baseline) ==
    Floored(BaseOrZero(select_method(method, SamplesAt(series_list, t), trim_pct)),
            min_baseline)

RECURSIVE SumMissing(_)
SumMissing(series_list) ==
    IF series_list = <<>> THEN 0
    ELSE Head(series_list).missing_bars + SumMissing(Tail(series_list))

\* The slot count without the floor of one slot.
BuildExpectedBars_NoFloor(session, bar_size) ==
    session_minutes(session) \div parse_bar_minutes(bar_size)

\* Line 293: the number of slots of the curve being built.
BuildExpectedBars(session, bar_size) ==
    Max(1, session_minutes(session) \div parse_bar_minutes(bar_size))

\* Lines 311-322: the BaselineCurve of the series kept.
BaselineCurve(symbol, series_list, expected_bars, session, bar_size, lookback_days, method, trim_pct, min_history_days, min_baseline, wall) ==
    [symbol |-> symbol,
     session |-> CleanSession(session),
     bar_size |-> bar_size,
     lookback_days |-> lookback_days,
     method |-> CleanMethod(method),
     trim_pct |-> trim_pct,
     updated_at |-> wall,
     baseline_cumvol |-> [i \in 1..expected_bars |->
         BaselineAt(series_list, i - 1, method, trim_pct, min_baseline)],
     history_days_used |-> Len(series_list),
     notes |-> [insufficient_history |-> Len(series_list) < Max(1, min_history_days),
                missing_bars |-> SumMissing(series_list),
                no_history |-> Len(series_list) = 0]]

\* wall is datetime.now(tz=UTC) at the time of the build.
build_baseline_curve_from_bars(symbol, bars, now, session, bar_size, lookback_days, method, trim_pct, min_history_days, min_baseline, wall) ==
    BaselineCurve(symbol,
        SeriesOfDays(previous_trading_days(now, lookback_days), bars, session, bar_size),
        BuildExpectedBars(session, bar_size),
        session, bar_size, lookback_days, method, trim_pct, min_history_days,
        min_baseline, wall)

----------------------------------------------------------------------------
(* rvol.py: compute_rvol_time_of_day *)

\* Line 361: today's series is read only when it exists and holds the index.
CanReadToday(today_series, minute_idx) ==
    IsSome(today_series) /\ minute_idx < Len(Val(today_series).cumvol_1m)

\* Line 366: the curve is read only when it exists and holds the index.
CanReadBaseline(baseline_curve, minute_idx) ==
    IsSome(baseline_curve) /\ minute_idx < Len(Val(baseline_curve).baseline_cumvol)

\* seq[idx] of Python for idx >= 0: the element, or IndexError.
ItemAt(seq, idx) ==
    IF idx + 1 \in DOMAIN seq THEN [raised |-> "none", val |-> Some(seq[idx + 1])]
    ELSE [raised |-> "IndexError", val |-> None]

NotRead == [raised |-> "none", val |-> None]

\* Lines 360-362: cumvol_today.
ReadToday(today_series, minute_idx) ==
    IF CanReadToday(today_series, minute_idx)
    THEN ItemAt(Val(today_series).cumvol_1m, minute_idx) ELSE NotRead

\* Lines 364-367: baseline_val.
ReadBaseline(baseline_curve, minute_idx) ==
    IF CanReadBaseline(baseline_curve, minute_idx)
    THEN ItemAt(Val(baseline_curve).baseline_cumvol, minute_idx) ELSE NotRead

\* The guard without the test for a positive baseline.
RatioGuard_NoPositive(baseline_val, cumvol_today) ==
    IsSome(baseline_val) /\ IsSome(cumvol_today)

\* Line 372: `baseline_val and baseline_val > 0 and cumvol_today is not None`.
RatioGuard(baseline_val, cumvol_today) ==
    /\ IsSome(baseline_val) /\ ~QIsZero(Val(baseline_val))
    /\ QLt(QInt(0), Val(baseline_val))
    /\ IsSome(cumvol_today)

\* Line 373: cumvol_today / baseline_val, or ZeroDivisionError.
Divide(cumvol_today, baseline_val) ==
    IF QIsZero(baseline_val) THEN [raised |-> "ZeroDivisionError", val |-> None]
    ELSE [raised |-> "none", val |-> Some(QDivInt(cumvol_today, baseline_val))]

\* Lines 369-373: rvol_raw.
Ratio(baseline_val, cumvol_today) ==
    IF RatioGuard(baseline_val, cumvol_today)
    THEN Divide(Val(cumvol_today), Val(baseline_val)) ELSE NotRead

\* The guard without the test for a positive cap.
CapGuard_NoPositive(cap, rvol_raw) ==
    IsSome(cap) /\ QLt(Val(cap), rvol_raw)

\* Line 375: `cap is not None and cap > 0 and rvol_raw > cap`.
CapGuard(cap, rvol_raw) ==
    IsSome(cap) /\ QLt(QInt(0), Val(cap)) /\ QLt(Val(cap), rvol_raw)

\* Lines 374-377: cap_applied.
Capped(cap, rvol_raw) == IsSome(rvol_raw) /\ CapGuard(cap, Val(rvol_raw))

HistoryDays(baseline_curve) ==
    IF IsSome(baseline_curve) THEN Val(baseline_curve).history_days_used ELSE 0

\* Lines 339-352: the result for a now outside the session window.
MismatchResult(symbol, baseline_curve, min_history_days) ==
    [raised |-> "none",
     symbol |-> symbol,
     minute_index |-> None,
     cumvol_today |-> None,
     baseline_cumvol |-> None,
     rvol_raw |-> None,
     rvol |-> None,
     history_days_used |-> HistoryDays(baseline_curve),
     baseline_low |-> FALSE,
     insufficient_history |->
        IF IsNone(baseline_curve) THEN TRUE
        ELSE Val(baseline_curve).history_days_used < min_history_days,
     session_mismatch |-> TRUE,
     cap_applied |-> FALSE]

\* The exception the call ends with, "none" when it returns.
Raised(today, base, ratio) ==
    IF today.raised # "none" THEN today.raised
    ELSE IF base.raised # "none" THEN base.raised
    ELSE ratio.raised

\* The flag with a strict comparison.
BaselineLow_Strict(baseline_val, min_baseline) ==
    IsSome(baseline_val) /\ QLt(Val(baseline_val), QInt(min_baseline))

\* Line 379: bool(baseline_val is not None and baseline_val <= float(min_baseline)).
BaselineLow(baseline_val, min_baseline) ==
    IsSome(baseline_val) /\ QLe(Val(baseline_val), QInt(min_baseline))

\* Lines 379-394: the result inside the session window.
RvolResult(symbol, minute_idx, today, base, ratio, history_days, min_history_days, min_baseline, cap) ==
    [raised |-> Raised(today, base, ratio),
     symbol |-> symbol,
     minute_index |-> minute_idx,
     cumvol_today |-> today.val,
     baseline_cumvol |-> base.val,
     rvol_raw |-> ratio.val,
     rvol |-> IF Capped(cap, ratio.val) THEN cap ELSE ratio.val,
     history_days_used |-> history_days,
     baseline_low |-> BaselineLow(base.val, min_baseline),
     insufficient_history |-> history_days < Max(1, min_history_days),
     session_mismatch |-> FALSE,
     cap_applied |-> Capped(cap, ratio.val)]

\* Lines 354-394, given what was read.
ResultOfReads(symbol, minute_idx, today, base, history_days, min_history_days, min_baseline, cap) ==
    RvolResult(symbol, minute_idx, today, base, Ratio(base.val, today.val),
               history_days, min_history_days, min_baseline, cap)

\* Lines 338-394, given the index and today's series.
ResultAt(symbol, minute_idx, today_series, baseline_curve, min_history_days, min_baseline, cap) ==
    IF IsNone(minute_idx) THEN MismatchResult(symbol, baseline_curve, min_history_days)
    ELSE ResultOfReads(symbol, minute_idx,
             ReadToday(today_series, Val(minute_idx)),
             ReadBaseline(baseline_curve, Val(minute_idx)),
             HistoryDays(baseline_curve), min_history_days, min_baseline, cap)

compute_rvol_time_of_day(symbol, bars, baseline_curve, now, session, bar_size, min_history_days, min_baseline, cap) ==
    ResultAt(symbol, minute_index_in_session(now, session),
             get_intraday_1m_volume(bars, DateNy(now), session, bar_size),
             baseline_curve, min_history_days, min_baseline, cap)

----------------------------------------------------------------------------
(* The RVOL engine applied to drawn inputs *)

MaxBars == 3
\* Today is the Wednesday of the third week.
Today == 2 * 7 + 2
Sym == "TEST"

\* Bars the data source can deliver: [ts, vol].
RvBarPool ==
    { [ts |-> AtNy(Today - 1, RTH_OPEN), vol |-> 400],
      [ts |-> AtNy(Today - 2, RTH_OPEN + 1), vol |-> 100],
      [ts |-> AtNy(Today - 1, PRE_OPEN + 1), vol |-> 50],
      [ts |-> AtNy(Today - 2, RTH_OPEN + 30), vol |-> 300],
      [ts |-> AtNy(Today, RTH_OPEN), vol |-> 800] }
RvBarSets == { B \in SUBSET RvBarPool : Cardinality(B) <= MaxBars }

RvNows == { AtNy(Today, RTH_OPEN + 1), AtNy(Today, PRE_OPEN + 1),
            AtNy(Today, RTH_OPEN + 195), AtNy(Today, RTH_CLOSE) }
RvSessions == { T_RTH, T_RTHPRE }
RvBarSizes == { T_30mins, T_130m, T_195min, T_400min }
RvMethods == { T_mean, T_median, T_trimmed_mean }
RvTrimPcts == { 20 }
RvLookback == 2
RvMinBaselines == { 0, 1000 }
RvFloors == { 1000 }
\* RVOL_MIN_HISTORY_DAYS is read with int() and no lower bound.
RvMinHistory == { 0, 1, 2 }
RvCaps == { None, Some(QInt(0)), Some(QInt(1)) }

\* Curves a caller can hand over without having built them in this run
\* (rows of the store written under other settings).
GivenValues(kind, n) ==
    IF kind = "empty" THEN <<>>
    ELSE IF kind = "short" THEN <<QInt(100)>>
    ELSE IF kind = "zero" THEN [i \in 1..n |-> QInt(0)]
    ELSE [i \in 1..n |-> QInt(0 - 5)]
GivenCurve(kind, cfg) ==
    LET vals == GivenValues(kind, session_bar_count(cfg.session, cfg.bar_size))
    IN [symbol |-> Sym, session |-> CleanSession(cfg.session), bar_size |-> cfg.bar_size,
        lookback_days |-> RvLookback, method |-> T_mean, trim_pct |-> 0,
        updated_at |-> [min |-> rv_now, us |-> 0],
        baseline_cumvol |-> vals, history_days_used |-> 2,
        notes |-> [insufficient_history |-> FALSE, missing_bars |-> 0, no_history |-> FALSE]]
GivenKinds == { "empty", "short", "zero", "negative" }

RvInit ==
    /\ rv_bars \in RvBarSets
    /\ rv_now \in RvNows
    /\ rv_cfg \in [session : RvSessions, bar_size : RvBarSizes, min_history_days : RvMinHistory]
    /\ rv_curve = None
    /\ rv_built = None
    /\ rv_res = None

\* The curve build_baseline_curve_from_bars returns for the run's inputs.
RvBuiltCurve(b) ==
    build_baseline_curve_from_bars(Sym, rv_bars, rv_now, rv_cfg.session, rv_cfg.bar_size,
        b.lookback_days, b.method, b.trim_pct, rv_cfg.min_history_days, b.min_baseline,
        [min |-> rv_now, us |-> 0])

\* A call of build_baseline_curve_from_bars.
RvBuild(method, trim_pct, min_baseline) ==
    LET b == [lookback_days |-> RvLookback, method |-> method, trim_pct |-> trim_pct,
              min_baseline |-> min_baseline]
    IN /\ IsNone(rv_curve) /\ IsNone(rv_res)
       /\ rv_built' = Some(b)
       /\ rv_curve' = Some(RvBuiltCurve(b))
       /\ rv_res' = None
       /\ UNCHANGED <<rv_bars, rv_now, rv_cfg, cacheVars, fnVars, fbVars, rtVars, pfVars>>

\* The caller holds a curve it did not build in this run.
RvGiven(kind) ==
    /\ IsNone(rv_curve) /\ IsNone(rv_res)
    /\ rv_curve' = Some(GivenCurve(kind, rv_cfg))
    /\ rv_built' = None
    /\ rv_res' = None
    /\ UNCHANGED <<rv_bars, rv_now, rv_cfg, cacheVars, fnVars, fbVars, rtVars, pfVars>>

\* A call of compute_rvol_time_of_day.
RvCompute(min_baseline, cap) ==
    /\ IsNone(rv_res)
    /\ rv_res' = Some([min_baseline |-> min_baseline, cap |-> cap,
                       res |-> compute_rvol_time_of_day(Sym, rv_bars, rv_curve, rv_now,
                                   rv_cfg.session, rv_cfg.bar_size, rv_cfg.min_history_days,
                                   min_baseline, cap)])
    /\ UNCHANGED <<rv_bars, rv_now, rv_cfg, rv_curve, rv_built, cacheVars, fnVars, fbVars, rtVars, pfVars>>

RvNext ==
    \/ \E m \in RvMethods, t \in RvTrimPcts, f \in RvMinBaselines : RvBuild(m, t, f)
    \/ \E k \in GivenKinds : RvGiven(k)
    \/ \E f \in RvFloors, c \in RvCaps : RvCompute(f, c)

----------------------------------------------------------------------------
(* rvol.py / db.py: the baseline cache *)

\* The identity key the caller passes: the six arguments of the lookup.
KeyOf(symbol, session, bar_size, lookback_days, method, trim_pct) ==
    [symbol |-> symbol, session |-> session, bar_size |-> bar_size,
     lookback_days |-> lookback_days, method |-> method, trim_pct |-> trim_pct]

RowKey(row) ==
    KeyOf(row.symbol, row.session, row.bar_size, row.lookback_days, row.method, row.trim_pct)

\* db.load_baseline_curve: the row whose six key columns equal the arguments.
db_load_baseline_curve(rows, key) ==
    IF \E r \in rows : RowKey(r) = key
    THEN Some(CHOOSE r \in rows : RowKey(r) = key)
    ELSE None

\* rvol.load_baseline_curve: the row as a BaselineCurve; updated_utc is parsed
\* back from its ISO text, which holds no microseconds.
CurveOfRow(row) ==
    IF IsNone(row) THEN None
    ELSE Some([symbol |-> Val(row).symbol,
               session |-> Val(row).session,
               bar_size |-> Val(row).bar_size,
               lookback_days |-> Val(row).lookback_days,
               method |-> Val(row).method,
               trim_pct |-> Val(row).trim_pct,
               updated_at |-> [min |-> Val(row).updated_utc, us |-> 0],
               baseline_cumvol |-> Val(row).baseline_cumvol,
               history_days_used |-> Val(row).history_days_used,
               notes |-> Val(row).notes])
load_baseline_curve(rows, key) == CurveOfRow(db_load_baseline_curve(rows, key))

\* rvol.upsert_baseline_curve over db.upsert_baseline_curve (INSERT OR REPLACE on
\* the six key columns): the row is keyed by the curve's own fields, and
\* updated_utc is updated_at with microsecond=0.
upsert_baseline_curve(rows, curve) ==
    LET row == [symbol |-> curve.symbol,
                session |-> curve.session,
                bar_size |-> curve.bar_size,
                lookback_days |-> curve.lookback_days,
                method |-> curve.method,
                trim_pct |-> curve.trim_pct,
                updated_utc |-> curve.updated_at.min,
                history_days_used |-> curve.history_days_used,
                baseline_cumvol |-> curve.baseline_cumvol,
                notes |-> curve.notes]
    IN {r \in rows : RowKey(r) # RowKey(row)} \cup {row}

baseline_curve_stale(curve, now) == DateNy(curve.updated_at.min) # DateNy(now)

\* Lines 484-485: the cached curve is returned when it exists and is not stale.
CacheHit(cached, now) == IsSome(cached) /\ ~baseline_curve_stale(Val(cached), now)

\* get_or_build_baseline_curve: [built, curve, rows], rows being the store after
\* the call.
ReuseOrBuild(rows, cached, now, curve) ==
    IF CacheHit(cached, now)
    THEN [built |-> FALSE, curve |-> Val(cached), rows |-> rows]
    ELSE [built |-> TRUE, curve |-> curve, rows |-> upsert_baseline_curve(rows, curve)]

get_or_build_baseline_curve(rows, symbol, bars, now, session, bar_size, lookback_days, method, trim_pct, min_history_days, min_baseline, wall) ==
    ReuseOrBuild(rows,
        load_baseline_curve(rows,
            KeyOf(symbol, session, bar_size, lookback_days, method, trim_pct)),
        now,
        build_baseline_curve_from_bars(symbol, bars, now, session, bar_size,
            lookback_days, method, trim_pct, min_history_days, min_baseline, wall))

----------------------------------------------------------------------------
(* The cache under repeated calls *)

\* Rebuilds a behaviour may hold in all.
MaxRebuilds == 3

\* Wall-clock instants (UTC minutes): two on day Today, one on the next day.
CacheInstants == { AtNy(Today, RTH_OPEN + 30), AtNy(Today, MinPerDay - 1),
                   AtNy(Today + 1, 1) }
\* The microsecond part of the wall clock: zero or not.
MicroParts == { 0, 1 }

CacheSessions == { T_RTH, T_Empty }
CacheBarSize == T_195min
CacheMethod == T_mean
CacheKeys == { KeyOf(Sym, se, CacheBarSize, RvLookback, CacheMethod, 0) : se \in CacheSessions }
CacheBarSets == { {}, {[ts |-> AtNy(Today - 1, RTH_OPEN), vol |-> 400]} }

RECURSIVE SumCounts(_)
SumCounts(E) ==
    IF E = {} THEN 0 ELSE LET e == CHOOSE x \in E : TRUE IN e.n + SumCounts(E \ {e})

RebuildCount(key, day) ==
    IF \E e \in rebuilds : e.key = key /\ e.day = day
    THEN (CHOOSE e \in rebuilds : e.key = key /\ e.day = day).n
    ELSE 0

CacheInit ==
    /\ clock \in [min : {AtNy(Today, RTH_OPEN + 30)}, us : MicroParts]
    /\ now_run = clock.min
    /\ store = {}
    /\ c_bars \in CacheBarSets
    /\ prevCall = None
    /\ lastCall = None
    /\ rebuilds = {}

\* Time passes.
Tick(m, u) ==
    /\ m > clock.min
    /\ clock' = [min |-> m, us |-> u]
    /\ UNCHANGED <<now_run, store, c_bars, prevCall, lastCall, rebuilds>>
    /\ UNCHANGED <<rvVars, fnVars, fbVars, rtVars, pfVars>>

\* builder.py line 25: a run starts and reads now_ny from the wall clock.
StartRun ==
    /\ now_run # clock.min
    /\ now_run' = clock.min
    /\ UNCHANGED <<clock, store, c_bars, prevCall, lastCall, rebuilds>>
    /\ UNCHANGED <<rvVars, fnVars, fbVars, rtVars, pfVars>>

\* builder.py lines 192-206: fetched bars are cached and reloaded.
CacheMinuteBars(B) ==
    /\ B # c_bars
    /\ c_bars \subseteq B
    /\ c_bars' = B
    /\ UNCHANGED <<clock, now_run, store, prevCall, lastCall, rebuilds>>
    /\ UNCHANGED <<rvVars, fnVars, fbVars, rtVars, pfVars>>

\* A call of get_or_build_baseline_curve with the key as the caller passes it.
Returned(key, r, day) ==
    /\ r.built => SumCounts(rebuilds) < MaxRebuilds
    /\ store' = r.rows
    /\ prevCall' = lastCall
    /\ lastCall' = Some([key |-> key, now |-> now_run, bars |-> c_bars, wall |-> clock,
                         built |-> r.built, curve |-> r.curve])
    /\ rebuilds' = IF r.built
                   THEN {e \in rebuilds : ~(e.key = key /\ e.day = day)}
                        \cup {[key |-> key, day |-> day, n |-> RebuildCount(key, day) + 1]}
                   ELSE rebuilds
    /\ UNCHANGED <<clock, now_run, c_bars>>
    /\ UNCHANGED <<rvVars, fnVars, fbVars, rtVars, pfVars>>

Call(key) ==
    /\ key \in CacheKeys
    /\ Returned(key,
        get_or_build_baseline_curve(store, key.symbol, c_bars, now_run, key.session,
            key.bar_size, key.lookback_days, key.method, key.trim_pct, 1, 0, clock),
        DateNy(clock.min))

CacheNext ==
    \/ \E m \in CacheInstants, u \in MicroParts : Tick(m, u)
    \/ StartRun
    \/ \E B \in CacheBarSets : CacheMinuteBars(B)
    \/ \E k \in CacheKeys : Call(k)

----------------------------------------------------------------------------
(* Arithmetic on rationals, for prices, percentages and scores *)

RECURSIVE Gcd(_, _)
Gcd(a, b) == IF b = 0 THEN a ELSE Gcd(b, a % b)
Abs(i) == IF i < 0 THEN 0 - i ELSE i
\* n / d in lowest terms, d > 0.
QNormBy(n, d, g) == IF d < 0 THEN Q((0 - n) \div g, (0 - d) \div g) ELSE Q(n \div g, d \div g)
QNorm(n, d) == QNormBy(n, d, Gcd(Abs(n), Abs(d)))
QAdd(a, b) == QNorm(a.n * b.d + b.n * a.d, a.d * b.d)
QSub(a, b) == QNorm(a.n * b.d - b.n * a.d, a.d * b.d)
QMul(a, b) == QNorm(a.n * b.n, a.d * b.d)
QDiv(a, b) == QNorm(a.n * b.d, a.d * b.n)
QMin(a, b) == IF QLe(a, b) THEN a ELSE b
QMax(a, b) == IF QLe(b, a) THEN a ELSE b
\* A price of so many cents.
Cents(c) == QNorm(c, 100)
\* `x or default` of Python on an Optional number: None and 0 give the default.
QOr(opt, default) == IF IsNone(opt) \/ QIsZero(Val(opt)) THEN default ELSE Val(opt)
IntOr(opt, default) == IF IsNone(opt) \/ Val(opt) = 0 THEN default ELSE Val(opt)

\* math.log10 on a power of ten; the model draws ratios whose log10 is exact.
RECURSIVE Log10(_)
Log10(n) == IF n < 10 THEN 0 ELSE 1 + Log10(n \div 10)

----------------------------------------------------------------------------
(* ibkr.py: is_otc_pink *)

T_NASDAQ == <<"N","A","S","D","A","Q">>
T_NYSE == <<"N","Y","S","E">>
T_ARCA == <<"A","R","C","A">>
T_pink == <<"P","i","n","k">>
T_OTC == <<"O","T","C">>
T_PINK == <<"P","I","N","K">>
T_OTCBB == <<"O","T","C","B","B">>

\* `sub in s` of Python.
Contains(s, sub) ==
    \E i \in 1..(Len(s) - Len(sub) + 1) : SubSeq(s, i, i + Len(sub) - 1) = sub

OtcPinkName(pe) == Contains(pe, T_OTC) \/ Contains(pe, T_PINK) \/ Contains(pe, T_OTCBB)
is_otc_pink(primary_exchange) ==
    IF primary_exchange = <<>> THEN FALSE ELSE OtcPinkName(Upper(Strip(primary_exchange)))

----------------------------------------------------------------------------
(* sanity.py and scoring.py *)

\* Lines 34-36 of sanity.py.
SuspectCorporateAction(prev_close, change_pct, ss) ==
    /\ IsSome(prev_close) /\ IsSome(change_pct)
    /\ QLt(Val(prev_close), ss.sanity_prevclose_min)
    /\ QLt(ss.sanity_change_pct_max, Val(change_pct))

\* Lines 32-33 and 38-43 of sanity.py.
SuspectData(last, prev_close, change_pct, spread_pct, volume_today, ss) ==
    \/ IsNone(last) \/ IsNone(prev_close)
    \/ /\ IsSome(spread_pct) /\ QLt(QInt(0), ss.spread_pct_max)
       /\ QLt(ss.spread_pct_max, Val(spread_pct))
    \/ /\ ss.min_vol_for_high_change > 0 /\ IsSome(change_pct) /\ IsSome(volume_today)
       /\ QLt(QInt(80), Val(change_pct)) /\ Val(volume_today) < ss.min_vol_for_high_change

run_sanity_checks(m, ss) ==
    [suspectCorporateAction |-> SuspectCorporateAction(m.prev_close, m.change_pct, ss),
     suspectData |-> SuspectData(m.last, m.prev_close, m.change_pct, m.spread_pct,
                                 m.volume_today, ss)]

GradeRank(grade) ==
    IF grade = "A" THEN 0 ELSE IF grade = "B" THEN 1 ELSE IF grade = "C" THEN 2
    ELSE IF grade = "D" THEN 3 ELSE 9

cap_grade(grade, max_grade) ==
    IF GradeRank(grade) < GradeRank(max_grade) THEN max_grade ELSE grade

\* Lines 62-64 of scoring.py.
EffectiveSpreadMax(m, spread_abs_max, spread_pct_max) ==
    IF ~QLt(QInt(0), spread_abs_max) /\ QLt(QInt(0), spread_pct_max)
       /\ IsSome(m.last) /\ ~QIsZero(Val(m.last))
    THEN QMul(Val(m.last), spread_pct_max)
    ELSE spread_abs_max

\* Lines 56-59 of scoring.py.
ScoreRvol(m) ==
    IF IsSome(m.rvol_score) THEN QMin(QMax(Val(m.rvol_score), QInt(0)), QInt(1))
    ELSE QDiv(QMin(QMax(QOr(m.rvol, QInt(0)), QInt(0)), QInt(10)), QInt(10))

\* Line 65 of scoring.py.
ScoreSpread(spread, effective_spread_max) ==
    IF QLt(QInt(0), effective_spread_max)
    THEN QMax(QInt(0), QSub(QInt(1), QDiv(spread, effective_spread_max)))
    ELSE QInt(0)

\* Line 67 of scoring.py.
WeightedSum(s_change, s_rvol, s_vol, s_float, s_spread) ==
    QAdd(QAdd(QAdd(QAdd(QMul(Q(3, 10), s_change), QMul(Q(3, 10), s_rvol)),
                   QMul(Q(1, 5), s_vol)), QMul(Q(3, 20), s_float)),
         QMul(Q(1, 20), s_spread))

\* Lines 68-74 of scoring.py.
Adjusted(score, m) ==
    QMin(QMax(QSub(QSub(QAdd(score, IF m.has_catalyst THEN Q(1, 20) ELSE QInt(0)),
                        IF m.suspect_corporate_action THEN Q(1, 4) ELSE QInt(0)),
                   IF m.suspect_data THEN Q(3, 20) ELSE QInt(0)),
              QInt(0)),
         QInt(1))

ScoreOf(m, float_max, spread, effective_spread_max) ==
    Adjusted(WeightedSum(
                 QDiv(QMin(QMax(QOr(m.change_pct, QInt(0)), QInt(0)), QInt(50)), QInt(50)),
                 ScoreRvol(m),
                 QMin(QNorm(IntOr(m.volume_today, 0), 5000000), QInt(1)),
                 QMin(QNorm(float_max, IntOr(m.float_shares, float_max * 10)), QInt(1)),
                 ScoreSpread(spread, effective_spread_max)),
             m)

\* Lines 77-87 of scoring.py.
GradeOf(m, change, rvol, float_max, spread, effective_spread_max) ==
    IF /\ QLe(QInt(15), change) /\ QLe(QInt(5), rvol)
       /\ IntOr(m.volume_today, 0) >= 1000000
       /\ IntOr(m.float_shares, 999999999) <= float_max
       /\ (~QLt(QInt(0), effective_spread_max) \/ QLe(spread, effective_spread_max))
    THEN "A"
    ELSE IF /\ QLe(QInt(10), change) /\ QLe(QInt(3), rvol)
            /\ IntOr(m.volume_today, 0) >= 500000
            /\ (~QLt(QInt(0), effective_spread_max)
                \/ QLe(spread, QMul(effective_spread_max, Q(3, 2))))
    THEN "B"
    ELSE IF QLe(QInt(7), change) /\ QLe(QInt(2), rvol) THEN "C"
    ELSE "D"

\* The grade left as the thresholds give it.
CappedGrade_Uncapped(grade, m) == grade

\* Lines 89-90 of scoring.py.
CappedGrade(grade, m) ==
    IF m.suspect_corporate_action \/ m.suspect_data THEN cap_grade(grade, "C") ELSE grade

GradeAndScoreWith(m, float_max, spread, effective_spread_max) ==
    [grade |-> CappedGrade(GradeOf(m, QOr(m.change_pct, QInt(0)), QOr(m.rvol, QInt(0)),
                                   float_max, spread, effective_spread_max), m),
     score |-> ScoreOf(m, float_max, spread, effective_spread_max)]

grade_and_score(m, float_max, spread_abs_max, spread_pct_max) ==
    GradeAndScoreWith(m, float_max, QOr(m.spread, QInt(999)),
                      EffectiveSpreadMax(m, spread_abs_max, spread_pct_max))

----------------------------------------------------------------------------
(* builder.py: build_watchlist *)

\* Lines 57-60: the scan after the OTC/Pink exclusion.
ExcludeOtc(settings, scan) ==
    IF settings.exclude_otc_pink
    THEN SelectSeq(scan, LAMBDA c : ~is_otc_pink(c.primary_exchange))
    ELSE scan

\* The stage order with the volume checks first.
SnapshotDrop_VolumeFirst(settings, q) ==
    IF IsNone(q.vol_today) THEN "missing_volume"
    ELSE IF Val(q.vol_today) < settings.filters.volume_min THEN "volume_below_min"
    ELSE IF IsNone(q.last) \/ QLe(Val(q.last), QInt(0)) THEN "invalid_last"
    ELSE IF ~(QLe(settings.filters.price_min, Val(q.last))
              /\ QLe(Val(q.last), settings.filters.price_max)) THEN "price_out_of_range"
    ELSE IF IsNone(q.prev_close) \/ QLe(Val(q.prev_close), QInt(0)) THEN "missing_prev_close"
    ELSE IF QLt(QMul(QDiv(QSub(Val(q.last), Val(q.prev_close)), Val(q.prev_close)), QInt(100)),
                settings.filters.change_min_pct) THEN "change_below_min"
    ELSE "pass"

\* Lines 86-106: the counter a quote increments, "pass" when it is kept.
SnapshotDrop(settings, q) ==
    IF IsNone(q.last) \/ QLe(Val(q.last), QInt(0)) THEN "invalid_last"
    ELSE IF ~(QLe(settings.filters.price_min, Val(q.last))
              /\ QLe(Val(q.last), settings.filters.price_max)) THEN "price_out_of_range"
    ELSE IF IsNone(q.prev_close) \/ QLe(Val(q.prev_close), QInt(0)) THEN "missing_prev_close"
    ELSE IF QLt(QMul(QDiv(QSub(Val(q.last), Val(q.prev_close)), Val(q.prev_close)), QInt(100)),
                settings.filters.change_min_pct) THEN "change_below_min"
    ELSE IF IsNone(q.vol_today) THEN "missing_volume"
    ELSE IF Val(q.vol_today) < settings.filters.volume_min THEN "volume_below_min"
    ELSE "pass"

DropNames == { "invalid_last", "price_out_of_range", "missing_prev_close",
               "change_below_min", "missing_volume", "volume_below_min" }

\* Lines 69-76 and 84-106: drop_reasons after the snapshot loop.
DropReasons(settings, scan) ==
    [r \in DropNames |->
        Cardinality({i \in DOMAIN scan : SnapshotDrop(settings, scan[i]) = r})]

\* news.py lines 56-81: the fields of a news result the builder reads; error
\* is "" for None.
NewsInfo(has_catalyst, error) == [hasCatalyst |-> has_catalyst, error |-> error]

\* Lines 108-113: spread is ask - bid when both are > 0.
SpreadOf(q) ==
    IF IsSome(q.bid) /\ IsSome(q.ask) /\ QLt(QInt(0), Val(q.bid)) /\ QLt(QInt(0), Val(q.ask))
    THEN Some(QSub(Val(q.ask), Val(q.bid))) ELSE None
SpreadPctOf(spread, last) ==
    IF IsSome(spread) /\ QLt(QInt(0), last) THEN Some(QDiv(Val(spread), last)) ELSE None

\* Lines 115-125: the Metrics of a kept quote, with the candidate it belongs to.
MetricsWith(q, spread) ==
    [symbol |-> q.symbol,
     primary_exchange |-> q.primary_exchange,
     last |-> q.last,
     prev_close |-> q.prev_close,
     change_pct |-> Some(QMul(QDiv(QSub(Val(q.last), Val(q.prev_close)), Val(q.prev_close)),
                              QInt(100))),
     volume_today |-> q.vol_today,
     bid |-> q.bid,
     ask |-> q.ask,
     spread |-> spread,
     spread_pct |-> SpreadPctOf(spread, Val(q.last)),
     float_shares |-> None,
     rvol |-> None,
     rvol_raw |-> None,
     rvol_score |-> None,
     rvol_days_valid |-> None,
     rvol_cap_applied |-> None,
     rvol_session_mismatch |-> None,
     has_catalyst |-> FALSE,
     suspect_corporate_action |-> FALSE,
     suspect_data |-> FALSE,
     hist |-> q.hist,
     float_known |-> q.float_shares,
     news |-> q.news,
     news_info |-> NewsInfo(None, "")]
MetricsOf(q) == MetricsWith(q, SpreadOf(q))

\* Lines 83-126: prelim.
RECURSIVE Prelim(_, _)
Prelim(settings, scan) ==
    IF scan = <<>> THEN <<>>
    ELSE (IF SnapshotDrop(settings, Head(scan)) = "pass"
          THEN <<MetricsOf(Head(scan))>> ELSE <<>>)
         \o Prelim(settings, Tail(scan))

\* Lines 140-146: a known float above float_max is dropped.
FloatKept(settings, m) ==
    ~(IsSome(m.float_known) /\ Val(m.float_known) > settings.filters.float_max)
WithFloat(m) == [m EXCEPT !.float_shares = m.float_known]
RECURSIVE FloatFilter(_, _)
FloatFilter(settings, prelim) ==
    IF prelim = <<>> THEN <<>>
    ELSE (IF FloatKept(settings, Head(prelim)) THEN <<WithFloat(Head(prelim))>> ELSE <<>>)
         \o FloatFilter(settings, Tail(prelim))

\* list.sort(key, reverse=True): stable, by decreasing change_pct.
RECURSIVE InsertByChange(_, _)
InsertByChange(m, ms) ==
    IF ms = <<>> THEN <<m>>
    ELSE IF QLt(QOr(Head(ms).change_pct, QInt(0)), QOr(m.change_pct, QInt(0)))
         THEN <<m>> \o ms
         ELSE <<Head(ms)>> \o InsertByChange(m, Tail(ms))
RECURSIVE SortByChange(_)
SortByChange(ms) ==
    IF ms = <<>> THEN <<>>
    ELSE InsertByChange(ms[Len(ms)], SortByChange(SubSeq(ms, 1, Len(ms) - 1)))

\* The whole list in the place of filtered[:k].
TakeK_All(ms, k) == ms

\* filtered[:k] and filtered[k:] of Python for k >= 0.
TakeK(ms, k) == SubSeq(ms, 1, Min(Len(ms), k))
DropK(ms, k) == SubSeq(ms, Min(Len(ms), k) + 1, Len(ms))

\* Lines 154-156 and 162-206: the bars loaded back since now - (lookback + 7) days.
BarsSince(bars, now, lookback_days) ==
    {b \in bars : b.ts >= now - (lookback_days + 7) * MinPerDay}

\* Lines 244-248: rvol_score.
CapForScore(cap) == IF IsSome(cap) /\ QLt(QInt(1), Val(cap)) THEN Val(cap) ELSE QInt(200)
RvolScoreOf(raw, cap_for_score) ==
    QMin(QInt(1), QNorm(Log10(raw.n \div raw.d), Log10(cap_for_score.n \div cap_for_score.d)))
RvolScore(rvol_raw, cap) ==
    IF IsSome(rvol_raw)
    THEN Some(RvolScoreOf(QMax(Val(rvol_raw), QInt(1)), CapForScore(cap)))
    ELSE None

\* Lines 233-248: the RVOL fields of the Metrics.
WithRvol(m, res, cap) ==
    [m EXCEPT !.rvol = res.rvol,
              !.rvol_raw = res.rvol_raw,
              !.rvol_days_valid = Some(res.history_days_used),
              !.rvol_cap_applied = Some(res.cap_applied),
              !.rvol_session_mismatch = Some(res.session_mismatch),
              !.rvol_score = RvolScore(res.rvol_raw, cap)]

\* Lines 208-232 for one symbol, on the bars at hand: the Metrics and the store.
RvolWithCurve(m, bars, got, now, rs) ==
    [m |-> WithRvol(m, compute_rvol_time_of_day(m.symbol, bars, Some(got.curve), now,
                           rs.session, rs.bar_size, rs.min_history_days, rs.min_baseline,
                           rs.cap), rs.cap),
     rows |-> got.rows]
RvolOnBars(m, bars, now, rows, wall, rs) ==
    RvolWithCurve(m, bars,
        get_or_build_baseline_curve(rows, m.symbol, bars, now, rs.session, rs.bar_size,
            rs.lookback_days, rs.method, rs.trim_pct, rs.min_history_days,
            rs.min_baseline, wall),
        now, rs)

\* Lines 171-175: the history is fetched when the cached bars are fewer than
\* one session for each required day.
RvolFetched(cached, rs) ==
    Cardinality(cached) < session_bar_count(rs.session, rs.bar_size) * Max(1, rs.min_history_days)

\* Lines 208-248: the iteration that reached compute_rvol_time_of_day.
RvolLogged(one, fetched, bars_written) ==
    [m |-> one.m, rows |-> one.rows, fetched |-> fetched, computed |-> TRUE,
     bars_written |-> bars_written]

\* Lines 158-260 for one symbol, the bar cache holding nothing for it when the
\* run starts: a timeout of the fetch leaves the symbol as it was.
RvolOne(m, now, rows, wall, rs) ==
    IF RvolFetched({}, rs) /\ m.hist.timeout
    THEN [m |-> m, rows |-> rows, fetched |-> TRUE, computed |-> FALSE,
          bars_written |-> FALSE]
    ELSE RvolLogged(RvolOnBars(m, BarsSince(m.hist.bars, now, rs.lookback_days), now, rows,
                               wall, rs),
                    RvolFetched({}, rs),
                    RvolFetched({}, rs) /\ m.hist.bars # {})

\* Nothing iterated yet: the Metrics done, the symbols whose history was
\* fetched, the symbols RVOL was computed for and the symbols whose bars
\* cache_minute_bars wrote (line 198).
RvolNone == [ms |-> <<>>, fetched |-> <<>>, computed |-> <<>>, bars_written |-> <<>>]
RvolDone(one, done) ==
    [ms |-> done.ms \o <<one.m>>,
     fetched |-> done.fetched \o (IF one.fetched THEN <<one.m.symbol>> ELSE <<>>),
     computed |-> done.computed \o (IF one.computed THEN <<one.m.symbol>> ELSE <<>>),
     bars_written |-> done.bars_written
                         \o (IF one.bars_written THEN <<one.m.symbol>> ELSE <<>>)]

\* Lines 158-260: the loop over top_for_rvol, threading the store.
RECURSIVE RvolLoop(_, _, _, _, _, _)
\* The loop left at the first timeout.
RvolAppend_StopOnTimeout(one, rest, now, wall, rs, done) ==
    RvolLoop(IF one.computed THEN rest ELSE <<>>, now, one.rows, wall, rs,
             RvolDone(one, done))

RvolAppend(one, rest, now, wall, rs, done) ==
    RvolLoop(rest, now, one.rows, wall, rs, RvolDone(one, done))
RvolLoop(ms, now, rows, wall, rs, done) ==
    IF ms = <<>>
    THEN [ms |-> done.ms, rows |-> rows, fetched |-> done.fetched,
          computed |-> done.computed, bars_written |-> done.bars_written]
    ELSE RvolAppend(RvolOne(Head(ms), now, rows, wall, rs), Tail(ms), now, wall, rs, done)

\* Lines 286-294: the RVOL filter.
RvolRequired_Always(settings) == TRUE
RvolRequired_Never(settings) == FALSE

RvolRequired(settings) ==
    ~(settings.rvol_permissive_if_not_live /\ settings.ib_market_data_type # 1)
RvolForFilter(m) == IF IsSome(m.rvol_raw) THEN m.rvol_raw ELSE m.rvol
RvolKept(settings, rvol_for_filter) ==
    IF IsNone(rvol_for_filter) THEN ~RvolRequired(settings)
    ELSE ~QLt(Val(rvol_for_filter), settings.filters.rvol_min)

\* The spread filters letting a missing spread through.
SpreadKept_MissingPasses(settings, m) ==
    /\ QLt(QInt(0), settings.filters.spread_abs_max)
       => (IsNone(m.spread) \/ QLe(Val(m.spread), settings.filters.spread_abs_max))
    /\ QLt(QInt(0), settings.filters.spread_pct_max)
       => (IsNone(m.spread_pct) \/ QLe(Val(m.spread_pct), settings.filters.spread_pct_max))

\* Lines 295-300: the spread filters.
SpreadKept(settings, m) ==
    /\ QLt(QInt(0), settings.filters.spread_abs_max)
       => (IsSome(m.spread) /\ QLe(Val(m.spread), settings.filters.spread_abs_max))
    /\ QLt(QInt(0), settings.filters.spread_pct_max)
       => (IsSome(m.spread_pct) /\ QLe(Val(m.spread_pct), settings.filters.spread_pct_max))

\* Lines 284-301: candidates.
FinalKept(settings, m) == RvolKept(settings, RvolForFilter(m)) /\ SpreadKept(settings, m)
FinalFilter(settings, filtered) == SelectSeq(filtered, LAMBDA m : FinalKept(settings, m))

\* news.py lines 118-213, the key being set: HTTP 402 raises
\* NewsProviderRestricted; 429, a timeout, a connection or HTTP error and a
\* body that is not a list give a result without a verdict; otherwise the
\* verdict is whether an item is recent.
get_latest_news(resp) ==
    IF resp.status = 402 THEN [raised |-> TRUE, info |-> NewsInfo(None, "")]
    ELSE [raised |-> FALSE,
          info |-> IF resp.status = 429 THEN NewsInfo(None, "rate_limited")
                   ELSE IF resp.status # 200 THEN NewsInfo(None, "request_failed")
                   ELSE IF ~resp.body_ok THEN NewsInfo(None, "bad_payload")
                   ELSE NewsInfo(Some(resp.recent), "")]

\* news.py lines 216-237: fetch_news asks symbol by symbol; the exception of a
\* request leaves the loop.  requests lists the symbols asked for.
RECURSIVE FetchNewsLoop(_, _, _)
\* The restricted request answered with a result and the loop going on.
FetchNewsStep_GoOn(got, m, rest, results, requests) ==
    FetchNewsLoop(rest,
        results \cup {[symbol |-> m.symbol,
                       info |-> IF got.raised THEN NewsInfo(None, "restricted_endpoint_402")
                                ELSE got.info]},
        requests \o <<m.symbol>>)

FetchNewsStep(got, m, rest, results, requests) ==
    IF got.raised
    THEN [raised |-> TRUE, results |-> results, requests |-> requests \o <<m.symbol>>]
    ELSE FetchNewsLoop(rest, results \cup {[symbol |-> m.symbol, info |-> got.info]},
                       requests \o <<m.symbol>>)
FetchNewsLoop(ms, results, requests) ==
    IF ms = <<>> THEN [raised |-> FALSE, results |-> results, requests |-> requests]
    ELSE FetchNewsStep(get_latest_news(Head(ms).news), Head(ms), Tail(ms), results, requests)
fetch_news(ms) == FetchNewsLoop(ms, {}, <<>>)

\* The response of the news endpoint to an answer of the kinds of Answers.
NewsAnswer(answer) ==
    [status |-> IF answer \in {"ok", "no_float"} THEN 200
                ELSE IF answer = "429" THEN 429
                ELSE IF answer = "402" THEN 402
                ELSE IF answer = "http_error" THEN 500
                ELSE 0,
     recent |-> answer = "ok",
     body_ok |-> answer # "bad_payload"]

\* builder.py lines 319-322: the symbols asked for, by decreasing change%.
NewsSymbols(settings, candidates) ==
    IF settings.news.debug_top_n > 0
    THEN SubSeq(SortByChange(candidates), 1, Min(Len(candidates), settings.news.debug_top_n))
    ELSE SortByChange(candidates)

NewsForAll(candidates, info) ==
    { [symbol |-> candidates[i].symbol, info |-> info] : i \in DOMAIN candidates }

\* Lines 323-330.
NewsFetched(candidates, got) ==
    IF got.raised
    THEN [enabled |-> FALSE, reason |-> "fmp_plan_restricted",
          map |-> NewsForAll(candidates, NewsInfo(None, "restricted_endpoint_402")),
          requests |-> got.requests]
    ELSE [enabled |-> TRUE, reason |-> "", map |-> got.results, requests |-> got.requests]

\* Lines 303-330: news_enabled, news_disabled_reason ("" for None), news_map
\* and the requests sent.
NewsStage(settings, candidates) ==
    IF settings.news.provider # "fmp"
    THEN [enabled |-> FALSE, reason |-> "disabled",
          map |-> NewsForAll(candidates, NewsInfo(None, "disabled")), requests |-> <<>>]
    ELSE IF settings.news.lookback_hours <= 0
    THEN [enabled |-> FALSE, reason |-> "lookback_disabled", map |-> {}, requests |-> <<>>]
    ELSE IF candidates = <<>>
    THEN [enabled |-> TRUE, reason |-> "", map |-> {}, requests |-> <<>>]
    ELSE NewsFetched(candidates, fetch_news(NewsSymbols(settings, candidates)))

\* Line 349: news_map.get(m.symbol) or {}.
NewsOf(map, symbol) ==
    IF \E e \in map : e.symbol = symbol
    THEN (CHOOSE e \in map : e.symbol = symbol).info
    ELSE NewsInfo(None, "")
WithNews(candidates, map) ==
    [i \in DOMAIN candidates |->
        [candidates[i] EXCEPT !.news_info = NewsOf(map, candidates[i].symbol)]]

\* Lines 355 and 357-370: the flags grade_and_score reads.
Flagged(m, flags) ==
    [m EXCEPT !.has_catalyst = (m.news_info.hasCatalyst = Some(TRUE)),
              !.suspect_corporate_action = flags.suspectCorporateAction,
              !.suspect_data = flags.suspectData]
WithFlags(m, settings) == Flagged(m, run_sanity_checks(m, settings.sanity))

\* Lines 381-428: the result row.
RowWith(m, gs) ==
    [symbol |-> m.symbol,
     primaryExchange |-> m.primary_exchange,
     changePct |-> m.change_pct,
     rvol |-> m.rvol,
     rvolRaw |-> m.rvol_raw,
     floatShares |-> m.float_shares,
     hasCatalyst |-> m.news_info.hasCatalyst,
     catalystError |-> m.news_info.error,
     suspectCorporateAction |-> m.suspect_corporate_action,
     suspectData |-> m.suspect_data,
     grade |-> gs.grade,
     score |-> gs.score]
RowOfFlagged(m, settings) ==
    RowWith(m, grade_and_score(m, settings.filters.float_max,
                               settings.filters.spread_abs_max,
                               settings.filters.spread_pct_max))
RowOf(m, settings) == RowOfFlagged(WithFlags(m, settings), settings)

\* The order with the score ascending within a grade.
FinalBefore_ScoreAscending(x, y) ==
    \/ GradeRank(x.grade) < GradeRank(y.grade)
    \/ GradeRank(x.grade) = GradeRank(y.grade) /\ QLt(x.score, y.score)

\* Line 432: x sorts strictly before y by (order[grade], -score).
FinalBefore(x, y) ==
    \/ GradeRank(x.grade) < GradeRank(y.grade)
    \/ GradeRank(x.grade) = GradeRank(y.grade) /\ QLt(y.score, x.score)

\* list.sort(key): stable.
RECURSIVE InsertFinal(_, _)
InsertFinal(x, rows) ==
    IF rows = <<>> THEN <<x>>
    ELSE IF FinalBefore(x, Head(rows)) THEN <<x>> \o rows
    ELSE <<Head(rows)>> \o InsertFinal(x, Tail(rows))
RECURSIVE SortFinal(_)
SortFinal(rows) ==
    IF rows = <<>> THEN <<>>
    ELSE InsertFinal(rows[Len(rows)], SortFinal(SubSeq(rows, 1, Len(rows) - 1)))

\* Lines 347-432: final.
FinalRows(settings, candidates) ==
    SortFinal([i \in DOMAIN candidates |-> RowOf(candidates[i], settings)])

\* The count of the symbols sent to the RVOL stage, in the place of filtered.
FilteredCount_TopK(filtered, top_for_rvol) == Len(top_for_rvol)

\* Line 473: "filtered": len(filtered).
FilteredCount(filtered, top_for_rvol) == Len(filtered)

\* Lines 441-504: the payload, with the store as the run leaves it, the
\* requests the RVOL loop made and the list `filtered` of line 285.
Payload(settings, raw, scan, prelim, filtered, top_for_rvol, final, loop, news) ==
    [scan |-> [raw_candidates |-> Len(raw),
               candidates |-> Len(scan),
               prelim |-> Len(prelim),
               filtered |-> FilteredCount(filtered, top_for_rvol),
               final |-> Len(final),
               invalid_last |-> DropReasons(settings, scan)["invalid_last"],
               excluded_otc_pink |-> Len(raw) - Len(scan),
               prelim_drop_reasons |-> DropReasons(settings, scan)],
     symbols |-> final,
     txt_symbols |-> [i \in DOMAIN final |-> final[i].symbol],
     rows_after |-> loop.rows,
     hist_fetches |-> loop.fetched,
     rvol_computed |-> loop.computed,
     bars_written |-> loop.bars_written,
     filtered_metrics |-> filtered,
     news |-> [enabled |-> news.enabled, reason_if_disabled |-> news.reason],
     news_requests |-> news.requests]

\* Lines 283-504.
AfterNews(settings, raw, scan, prelim, filtered, top_for_rvol, candidates, loop, news) ==
    Payload(settings, raw, scan, prelim, filtered, top_for_rvol,
            FinalRows(settings, WithNews(candidates, news.map)), loop, news)
AfterFinal(settings, raw, scan, prelim, filtered, top_for_rvol, candidates, loop) ==
    AfterNews(settings, raw, scan, prelim, filtered, top_for_rvol, candidates, loop,
              NewsStage(settings, candidates))
AfterRvol(settings, raw, scan, prelim, filtered, top_for_rvol, loop) ==
    AfterFinal(settings, raw, scan, prelim, filtered, top_for_rvol,
               FinalFilter(settings, filtered), loop)

\* Lines 158-260: the Metrics of top_for_rvol are updated in place in filtered.
AfterLoop(settings, raw, scan, prelim, sorted_filtered, loop) ==
    AfterRvol(settings, raw, scan, prelim,
              loop.ms \o DropK(sorted_filtered, settings.filters.max_rvol_symbols),
              loop.ms, loop)

\* Lines 150-260.
AfterSort(settings, raw, scan, prelim, sorted_filtered, now, rows, wall) ==
    AfterLoop(settings, raw, scan, prelim, sorted_filtered,
              RvolLoop(TakeK(sorted_filtered, settings.filters.max_rvol_symbols),
                       now, rows, wall, settings.rvol, RvolNone))

\* Lines 131-152.
AfterPrelim(settings, raw, scan, prelim, now, rows, wall) ==
    AfterSort(settings, raw, scan, prelim, SortByChange(FloatFilter(settings, prelim)),
              now, rows, wall)

\* Lines 63-126.
AfterScan(settings, raw, scan, now, rows, wall) ==
    AfterPrelim(settings, raw, scan, Prelim(settings, scan), now, rows, wall)

\* raw is what scan_top_perc_gainers returns, each candidate with the quote,
\* float, bars and news the providers hold for it.
build_watchlist(settings, raw, now, rows, wall) ==
    AfterScan(settings, raw, ExcludeOtc(settings, raw), now, rows, wall)

----------------------------------------------------------------------------
(* A run of build_watchlist on a drawn scan *)

\* Candidates a scan may return.
MaxCands == 3

\* settings.py lines 125-134 and 108-119: the defaults of Filters.
DefaultFilters(max_rvol_symbols) ==
    [price_min |-> QInt(2),
     price_max |-> QInt(20),
     change_min_pct |-> QInt(10),
     volume_min |-> 200000,
     rvol_min |-> QInt(3),
     float_max |-> 10000000,
     spread_abs_max |-> QInt(0),
     spread_pct_max |-> Cents(5),
     max_rvol_symbols |-> max_rvol_symbols]

\* settings.py lines 180-183: the defaults run_sanity_checks is called with.
DefaultSanity ==
    [sanity_prevclose_min |-> QInt(1),
     sanity_change_pct_max |-> QInt(150),
     spread_pct_max |-> Cents(5),
     min_vol_for_high_change |-> 50000]

\* The RVOL settings of the run: two slots a session, a cap of 100.
FnRvol ==
    [session |-> T_RTH,
     bar_size |-> T_195min,
     lookback_days |-> RvLookback,
     method |-> T_mean,
     trim_pct |-> 0,
     min_history_days |-> 1,
     min_baseline |-> 1000,
     cap |-> Some(QInt(100))]

\* settings.py lines 177-179.
DefaultNews == [provider |-> "fmp", lookback_hours |-> 24, debug_top_n |-> 10]

FnSettings(exclude_otc_pink, permissive, market_data_type, max_rvol_symbols) ==
    [exclude_otc_pink |-> exclude_otc_pink,
     rvol_permissive_if_not_live |-> permissive,
     ib_market_data_type |-> market_data_type,
     filters |-> DefaultFilters(max_rvol_symbols),
     sanity |-> DefaultSanity,
     rvol |-> FnRvol,
     news |-> DefaultNews]

FnSettingsSet ==
    { FnSettings(x, p, t, k) : x \in BOOLEAN, p \in BOOLEAN, t \in {1, 3},
                               k \in {0, 1, MaxCands} }

\* What the providers hold for a scanned symbol: the snapshot, the float, the
\* bars after the fetch (or its timeout) and the news.
Quote(symbol, exch, last, prev_close, vol_today, bid, ask, float_shares, hist, news) ==
    [symbol |-> symbol, primary_exchange |-> exch, last |-> last,
     prev_close |-> prev_close, vol_today |-> vol_today, bid |-> bid, ask |-> ask,
     float_shares |-> float_shares, hist |-> hist, news |-> news]

\* Yesterday's first slot holds 1000 shares; today's holds v.
HistBars(v) ==
    [timeout |-> FALSE,
     bars |-> { [ts |-> AtNy(Today - 1, RTH_OPEN), vol |-> 1000],
                [ts |-> AtNy(Today, RTH_OPEN), vol |-> v] }]
HistTimeout == [timeout |-> TRUE, bars |-> {}]

\* What the news endpoint answers for a symbol: the HTTP status (0 for a
\* timeout or a refused connection), whether an item is within the lookback
\* and whether the body is a list.
NewsHit == [status |-> 200, recent |-> TRUE, body_ok |-> TRUE]
NewsQuiet == [status |-> 200, recent |-> FALSE, body_ok |-> TRUE]
NewsDown == [status |-> 0, recent |-> FALSE, body_ok |-> TRUE]
NewsLimited == [status |-> 429, recent |-> FALSE, body_ok |-> TRUE]
NewsRestricted == [status |-> 402, recent |-> FALSE, body_ok |-> TRUE]

Universe ==
    << Quote("MMM", T_NYSE, Some(QInt(5)), Some(QInt(4)), Some(900000),
             Some(Cents(499)), Some(Cents(501)), Some(5000000), HistBars(1000), NewsLimited),
       Quote("BBB", T_NYSE, Some(QInt(6)), Some(QInt(5)), Some(600000),
             Some(Cents(599)), Some(Cents(601)), None, HistBars(10000), NewsQuiet),
       Quote("AAA", T_NASDAQ, Some(QInt(5)), Some(QInt(4)), Some(2000000),
             Some(Cents(499)), Some(Cents(501)), Some(5000000), HistBars(100000),
             NewsHit),
       Quote("DDD", T_pink, Some(QInt(5)), Some(QInt(4)), Some(1500000),
             Some(Cents(499)), Some(Cents(501)), Some(5000000), HistBars(1000000),
             NewsQuiet),
       Quote("CCC", T_ARCA, Some(QInt(2)), Some(Q(1, 2)), Some(1000000),
             Some(Cents(199)), Some(Cents(201)), Some(8000000), HistTimeout, NewsDown),
       Quote("EEE", T_NASDAQ, None, Some(QInt(4)), None,
             None, None, None, HistTimeout, NewsDown),
       Quote("OOO", T_OTC, Some(QInt(0)), Some(QInt(4)), Some(1000000),
             None, None, None, HistTimeout, NewsDown),
       Quote("FFF", T_NASDAQ, Some(QInt(50)), Some(QInt(40)), None,
             Some(Cents(4999)), Some(Cents(5001)), None, HistTimeout, NewsDown),
       Quote("GGG", T_NASDAQ, Some(QInt(5)), None, Some(1000),
             Some(Cents(499)), Some(Cents(501)), None, HistTimeout, NewsDown),
       Quote("HHH", T_NYSE, Some(Cents(410)), Some(QInt(4)), None,
             Some(Cents(409)), Some(Cents(411)), None, HistTimeout, NewsDown),
       Quote("III", T_NYSE, Some(QInt(5)), Some(QInt(4)), None,
             Some(Cents(499)), Some(Cents(501)), None, HistTimeout, NewsDown),
       Quote("JJJ", T_ARCA, Some(QInt(5)), Some(QInt(4)), Some(1000),
             Some(Cents(499)), Some(Cents(501)), None, HistTimeout, NewsDown),
       Quote("KKK", T_NASDAQ, Some(QInt(5)), Some(QInt(4)), Some(1000000),
             Some(Cents(499)), Some(Cents(501)), Some(50000000), HistBars(100000),
             NewsHit),
       Quote("LLL", T_NASDAQ, Some(QInt(6)), Some(QInt(4)), Some(300000),
             Some(Cents(590)), Some(Cents(610)), Some(8000000), HistBars(10000),
             NewsQuiet),
       Quote("NNN", T_NASDAQ, Some(Cents(520)), Some(QInt(4)), Some(1200000),
             Some(Cents(519)), Some(Cents(521)), Some(6000000), HistBars(100000),
             NewsRestricted) >>

\* ibkr.py lines 125-131: a scan holds each symbol once.
ScanOf(idx) == [i \in 1..Len(idx) |-> Universe[idx[i]]]
Scans ==
    { ScanOf(SetToSortedSeq(S)) :
        S \in { T \in SUBSET (1..Len(Universe)) : Cardinality(T) <= MaxCands } }

\* In the session at its first minute, and at its close.
FnInstants == { AtNy(Today, RTH_OPEN), AtNy(Today, RTH_CLOSE) }

FnInit ==
    /\ fn \in [phase : {"idle"}, settings : FnSettingsSet, raw : Scans, payload : {None}]
    /\ clock \in [min : FnInstants, us : {0}]
    /\ now_run = clock.min
    /\ store = {}
    /\ c_bars = {}
    /\ prevCall = None
    /\ lastCall = None
    /\ rebuilds = {}

Built(payload) ==
    /\ fn' = [fn EXCEPT !.phase = "done", !.payload = Some(payload)]
    /\ store' = payload.rows_after
    /\ UNCHANGED <<clock, now_run, c_bars, prevCall, lastCall, rebuilds>>
    /\ UNCHANGED <<rvVars, fbVars, rtVars, pfVars>>

\* cli.py line 323: one run of build_watchlist.
BuildWatchlist ==
    /\ fn.phase = "idle"
    /\ Built(build_watchlist(fn.settings, fn.raw, now_run, store, clock))

FnNext == BuildWatchlist

----------------------------------------------------------------------------
(* market_phase.py: get_market_phase *)

POST_CLOSE == 20 * 60

\* get_schedule_for_date on the NYSE calendar: nothing on a day without a
\* session, else the four times of the day in New York minutes.
get_schedule_for_date(date_ny) ==
    IF IsTradingDay(date_ny)
    THEN Some([pre |-> PRE_OPEN, market_open |-> RTH_OPEN,
               market_close |-> RTH_CLOSE, post |-> POST_CLOSE])
    ELSE None

\* The comparisons with the bounds included in the earlier phase.
PhaseIn_BoundsEarlier(minute_ny, schedule) ==
    IF minute_ny <= schedule.pre THEN "CLOSED"
    ELSE IF minute_ny <= schedule.market_open THEN "PREMARKET"
    ELSE IF minute_ny <= schedule.market_close THEN "OPEN"
    ELSE IF minute_ny <= schedule.post THEN "POST"
    ELSE "CLOSED"

\* Lines 72-81.
PhaseIn(minute_ny, schedule) ==
    IF minute_ny < schedule.pre THEN "CLOSED"
    ELSE IF minute_ny < schedule.market_open THEN "PREMARKET"
    ELSE IF minute_ny < schedule.market_close THEN "OPEN"
    ELSE IF minute_ny < schedule.post THEN "POST"
    ELSE "CLOSED"

PhaseOf(now, schedule) ==
    IF IsNone(schedule) THEN "CLOSED" ELSE PhaseIn(ClockNy(now), Val(schedule))

get_market_phase(now) == PhaseOf(now, get_schedule_for_date(DateNy(now)))

----------------------------------------------------------------------------
(* cli.py: main and the closed-market fallback *)

HourMin == MinPerDay \div 24
\* cli.py line 347: the default of CLOSED_STALE_MAX_HOURS.
StaleMaxHours == 36

T_last_ok == <<"l","a","s","t","_","o","k">>
T_empty == <<"e","m","p","t","y">>
T_research == <<"r","e","s","e","a","r","c","h">>
T_Research_sp == <<" ","R","e","s","e","a","r","c","h"," ">>
T_latest == <<"l","a","t","e","s","t">>

\* Lines 38-50: the payload of watchlist.json, the `original` of a fallback
\* payload in its place; no file, no payload.
load_last_watchlist(file) ==
    IF IsNone(file) THEN None
    ELSE IF Val(file).data.fallback_used /\ IsSome(Val(file).data.original)
         THEN Val(file).data.original
         ELSE Some(Val(file).data)

\* Lines 145-147 with the bound itself counted as stale.
is_stale_AtBound(file, now, max_hours) == now - Val(file).mtime >= max_hours * HourMin

\* Lines 145-147: the age of the file by its modification time.
is_stale(file, now, max_hours) == now - Val(file).mtime > max_hours * HourMin

\* Lines 169-200.
build_fallback_payload(reason, now, last_payload) ==
    [fallback_used |-> TRUE,
     fallback_reason |-> reason,
     generated_utc |-> now,
     symbols |-> IF IsSome(last_payload) THEN Val(last_payload).symbols ELSE <<>>,
     txt_symbols |-> IF IsSome(last_payload) THEN Val(last_payload).txt_symbols ELSE <<>>,
     original |-> last_payload]

\* Lines 215-217.
FallbackMode(fallback_mode) ==
    IF Lower(Strip(IF fallback_mode = <<>> THEN T_last_ok ELSE fallback_mode))
          \in {T_last_ok, T_empty, T_research}
    THEN Lower(Strip(IF fallback_mode = <<>> THEN T_last_ok ELSE fallback_mode))
    ELSE T_last_ok

\* Lines 246-266: the branch of last_ok after the file.
LastOkFromDb(db, reason, now, stale_max_hours) ==
    IF IsSome(db) /\ now - Val(db).generated_utc <= stale_max_hours * HourMin
    THEN build_fallback_payload(reason, now, db)
    ELSE build_fallback_payload(reason \o "_stale", now, None)

\* Lines 234-266.
LastOk(last_payload, file, db, reason, now, stale_max_hours) ==
    IF IsSome(last_payload) /\ ~is_stale(file, now, stale_max_hours)
    THEN build_fallback_payload(reason, now, last_payload)
    ELSE LastOkFromDb(db, reason, now, stale_max_hours)

\* Lines 268-300.
Research(last_payload, db, reason, now) ==
    IF IsSome(last_payload) THEN build_fallback_payload(reason, now, last_payload)
    ELSE IF IsSome(db) THEN build_fallback_payload(reason, now, db)
    ELSE build_fallback_payload(reason \o "_no_last", now, None)

FallbackIn(mode, last_payload, file, db, reason, now, stale_max_hours) ==
    IF mode = T_empty THEN build_fallback_payload(reason, now, None)
    ELSE IF mode = T_last_ok
         THEN LastOk(last_payload, file, db, reason, now, stale_max_hours)
         ELSE Research(last_payload, db, reason, now)

\* Lines 203-310; db is what _load_last_watchlist_from_db returns.
apply_closed_fallback(fallback_mode, file, db, reason, now, stale_max_hours) ==
    FallbackIn(FallbackMode(fallback_mode), load_last_watchlist(file), file, db,
               reason, now, stale_max_hours)

\* Lines 323-327: the payload of build_watchlist as main writes it.
MainPayload(payload, now) ==
    [fallback_used |-> FALSE,
     fallback_reason |-> "",
     generated_utc |-> now,
     symbols |-> payload.symbols,
     txt_symbols |-> payload.txt_symbols,
     original |-> None]

\* Lines 339-344.
ClosedReason(payload, require_active) ==
    IF payload.scan.candidates = 0 THEN "market_closed_no_candidates"
    ELSE IF require_active /\ payload.scan.invalid_last >= payload.scan.candidates
         THEN "market_closed_no_active_data"
         ELSE "market_closed_filtered_empty"

\* Lines 329-338 without the test of the final list.
FallbackEngaged_NoFinalEmpty(payload, profile_closed, phase, require_active) ==
    /\ profile_closed \/ phase = "CLOSED"
    /\ \/ payload.scan.candidates = 0
       \/ /\ require_active
          /\ payload.scan.candidates > 0
          /\ payload.scan.invalid_last >= payload.scan.candidates

\* Lines 329-338.
FallbackEngaged(payload, profile_closed, phase, require_active) ==
    /\ profile_closed \/ phase = "CLOSED"
    /\ \/ payload.scan.candidates = 0
       \/ Len(payload.symbols) = 0
       \/ /\ require_active
          /\ payload.scan.candidates > 0
          /\ payload.scan.invalid_last >= payload.scan.candidates

\* Lines 337-360: the payload main writes.
Written(payload, fallback_mode, profile_closed, require_active, file, db, now) ==
    IF FallbackEngaged(payload, profile_closed, get_market_phase(now), require_active)
    THEN apply_closed_fallback(fallback_mode, file, db,
                               ClosedReason(payload, require_active), now, StaleMaxHours)
    ELSE MainPayload(payload, now)

\* Steps of the clock in a behaviour.
MaxSteps == 2

\* A Friday afternoon in the session.
FbStart == AtNy(2 * 7 + 4, 15 * 60)
FbSteps == { 30 * HourMin, 36 * HourMin }
FbHorizon == FbStart + MaxSteps * 30 * HourMin

FbModes == { T_last_ok, T_empty, T_Research_sp, T_latest, T_Empty }
\* Nothing scanned; a symbol that passes; one without a last price.
FbScans == { <<>>, ScanOf(<<3>>), ScanOf(<<6>>) }
FbSettings == FnSettings(TRUE, TRUE, 3, MaxCands)

\* A run the database holds from the day before, or none.
FbDbRuns ==
    { None,
      Some([fallback_used |-> FALSE, fallback_reason |-> "",
            generated_utc |-> FbStart - 24 * HourMin,
            symbols |-> <<[symbol |-> "ZZZ", grade |-> "B", score |-> Q(1, 2)]>>,
            txt_symbols |-> <<"ZZZ">>, original |-> None]) }

FbInit ==
    /\ fb_clock = FbStart
    /\ fb_file = None
    /\ fb_db \in FbDbRuns
    /\ fb_last = None
    /\ clock = [min |-> FbStart, us |-> 0]
    /\ now_run = FbStart
    /\ store = {}
    /\ c_bars = {}
    /\ prevCall = None
    /\ lastCall = None
    /\ rebuilds = {}

\* main has run at the instant of the clock.
FbRan == IsSome(fb_last) /\ Val(fb_last).now = fb_clock

\* Time passes between runs.
FbTick(dt) ==
    /\ FbRan
    /\ fb_clock + dt <= FbHorizon
    /\ fb_clock' = fb_clock + dt
    /\ clock' = [min |-> fb_clock + dt, us |-> 0]
    /\ UNCHANGED <<fb_file, fb_db, fb_last>>
    /\ UNCHANGED <<now_run, store, c_bars, prevCall, lastCall, rebuilds>>
    /\ UNCHANGED <<rvVars, fnVars, rtVars, pfVars>>

\* Lines 363-364: write_json replaces watchlist.json.  fb_last keeps what the
\* run saw: the payload of build_watchlist, its scan counts, the phase, the
\* two environment settings, the reason of lines 339-344 and the file it found.
MainWrote(payload, written, fallback_mode, profile_closed, require_active) ==
    /\ fb_file' = Some([data |-> written, mtime |-> fb_clock])
    /\ fb_last' = Some([mode |-> FallbackMode(fallback_mode), now |-> fb_clock,
                        payload |-> written,
                        built |-> MainPayload(payload, fb_clock),
                        candidates |-> payload.scan.candidates,
                        invalid_last |-> payload.scan.invalid_last,
                        phase |-> get_market_phase(fb_clock),
                        profile_closed |-> profile_closed,
                        require_active |-> require_active,
                        reason |-> ClosedReason(payload, require_active),
                        file |-> fb_file])
    /\ store' = payload.rows_after
    /\ now_run' = fb_clock
    /\ UNCHANGED <<fb_clock, fb_db, clock, c_bars, prevCall, lastCall, rebuilds>>
    /\ UNCHANGED <<rvVars, fnVars, rtVars, pfVars>>

MainBuilt(payload, fallback_mode, profile_closed, require_active) ==
    MainWrote(payload,
              Written(payload, fallback_mode, profile_closed, require_active,
                      fb_file, fb_db, fb_clock),
              fallback_mode, profile_closed, require_active)

\* cli.py main: one run on what the scan returns.
Main(raw, fallback_mode, profile_closed, require_active) ==
    /\ ~FbRan
    /\ MainBuilt(build_watchlist(FbSettings, raw, fb_clock, store, clock),
                 fallback_mode, profile_closed, require_active)

FbNext ==
    \/ \E dt \in FbSteps : FbTick(dt)
    \/ \E raw \in FbScans, mode \in FbModes, pc \in BOOLEAN, ra \in BOOLEAN :
          Main(raw, mode, pc, ra)

----------------------------------------------------------------------------
(* float_provider.py and news.py: one call of a provider against an endpoint *)

\* Attempts a call may be allowed.
MaxRetries == 3

\* float_provider.py line 48: backoff_base_s, in milliseconds.
BackoffBaseMs == 500
\* Line 174: the jitter is below 0.25 s, below 0.75 s after HTTP 429.
JitterMs == 250
JitterHardMs == 750

\* What the endpoint answers to a request: a usable body, a body without a
\* positive float, a body that is not a list of objects, HTTP 429, HTTP 402,
\* another HTTP error, a timeout, a refused connection.
Answers == { "ok", "no_float", "bad_payload", "429", "402", "http_error", "timeout",
             "connection" }
Retryable == { "timeout", "connection", "429" }

RECURSIVE Pow2(_)
Pow2(k) == IF k = 0 THEN 1 ELSE 2 * Pow2(k - 1)

\* Lines 172-175: delay and the bound of the jitter of attempt `attempt`.
BackoffDelay(attempt, base) == base * Pow2(attempt - 1)
JitterBound(hard) == IF hard THEN JitterHardMs ELSE JitterMs

\* A call of _fetch with its max_retries, or a call of get_latest_news, which
\* takes no such argument: there max_retries is the bound its caller counts on.
RtInit ==
    /\ rt \in [provider : {"float", "news"},
               max_retries : 0..MaxRetries,
               answers : [1..MaxRetries -> Answers],
               attempt : {0},
               sleeps : {<<>>},
               phase : {"running"},
               result : {"none"}]
    /\ rt.provider = "news" => rt.max_retries > 1

RtCalls == rt # None /\ rt.phase = "running"

\* Lines 131, 138, 161, 167: _backoff sleeps, then the loop goes on.
RtBackoff(attempt, answer, jitter) ==
    rt' = [rt EXCEPT !.attempt = attempt,
                     !.sleeps = rt.sleeps \o <<[after |-> attempt, answer |-> answer,
                                                delay |-> BackoffDelay(attempt, BackoffBaseMs),
                                                jitter |-> jitter]>>]

RtReturn(attempt, result) ==
    rt' = [rt EXCEPT !.attempt = attempt, !.phase = "returned", !.result = result]

\* float_provider.py lines 125-168: one iteration of the loop of _fetch.
FloatAttempt(answer, jitter) ==
    /\ RtCalls
    /\ rt.provider = "float"
    /\ rt.attempt < rt.max_retries
    /\ answer = rt.answers[rt.attempt + 1]
    /\ jitter < JitterBound(answer = "429")
    /\ IF answer = "ok" THEN RtReturn(rt.attempt + 1, "value")
       ELSE IF answer \in {"no_float", "http_error", "402"}
            THEN RtReturn(rt.attempt + 1, "none")
            ELSE RtBackoff(rt.attempt + 1, answer, jitter)
    /\ UNCHANGED <<rvVars, cacheVars, fnVars, fbVars, pfVars>>

\* Line 170: the loop is over, _fetch returns None.
FloatExhausted ==
    /\ RtCalls
    /\ rt.provider = "float"
    /\ rt.attempt >= rt.max_retries
    /\ RtReturn(rt.attempt, "none")
    /\ UNCHANGED <<rvVars, cacheVars, fnVars, fbVars, pfVars>>

\* news.py lines 118-213: get_latest_news sends one request and returns, or
\* raises NewsProviderRestricted on HTTP 402.
NewsRequest(answer) ==
    /\ RtCalls
    /\ rt.provider = "news"
    /\ answer = rt.answers[1]
    /\ RtReturn(1, IF get_latest_news(NewsAnswer(answer)).raised THEN "raised"
                   ELSE IF IsSome(get_latest_news(NewsAnswer(answer)).info.hasCatalyst)
                        THEN "value" ELSE "none")
    /\ UNCHANGED <<rvVars, cacheVars, fnVars, fbVars, pfVars>>

RtNext ==
    \/ \E answer \in Answers, jitter \in {0, JitterMs - 1, JitterHardMs - 1} :
          FloatAttempt(answer, jitter)
    \/ FloatExhausted
    \/ \E answer \in Answers : NewsRequest(answer)

----------------------------------------------------------------------------
(* Pure functions applied to drawn arguments *)

\* Values a sample handed to trimmed_mean may hold.
MaxVals == 3

SeqsUpTo(S, n) == UNION { [1..k -> S] : k \in 1..n }

\* trim_pct in percent: none, the test's 20 %, the clamp, and beyond it.
TrimPcts == { 0, 20, TrimClampPct, TrimClampPct + 1, 100 }
TrimArgs == [vals : SeqsUpTo({1, 2, 100}, MaxVals), trim_pct : TrimPcts]

\* A Metrics as the snapshot loop, the float lookup and the RVOL loop leave it.
GradeMetrics(last, prev_close, volume_today, spread, rvol, float_shares, news) ==
    [MetricsWith(Quote("XXX", T_NASDAQ, last, prev_close, volume_today, None, None,
                       float_shares, HistTimeout, NewsDown), spread)
        EXCEPT !.float_shares = float_shares,
               !.rvol = rvol,
               !.rvol_raw = rvol,
               !.news_info = news]
GradeArgs ==
    { GradeMetrics(last, prev_close, volume_today, spread, rvol, float_shares, news) :
        last \in { Some(Cents(140)), Some(QInt(5)) },
        prev_close \in { Some(Q(1, 2)), Some(Cents(99)), Some(QInt(1)), Some(QInt(4)) },
        volume_today \in { None, Some(40000), Some(2000000) },
        spread \in { None, Some(Cents(1)), Some(Cents(50)) },
        rvol \in { None, Some(QInt(1)), Some(QInt(6)) },
        float_shares \in { None, Some(5000000) },
        news \in { NewsInfo(Some(TRUE), ""), NewsInfo(None, "request_failed") } }

\* A snapshot that passed the earlier stages (last and volume present), with
\* the two spread maxima of the run.
SpreadArgs ==
    [bid : { None, Some(QInt(0)), Some(Cents(990)), Some(QInt(10)) },
     ask : { None, Some(QInt(0)), Some(Cents(1010)) },
     last : { Some(Cents(1010)), Some(QInt(2)) },
     spread_abs_max : { QInt(0), Cents(10), Cents(20), QInt(20) },
     spread_pct_max : { QInt(0), Cents(1), Cents(5), QInt(2) }]
SpreadQuote(a) ==
    Quote("XXX", T_NASDAQ, a.last, Some(QInt(1)), Some(2000000), a.bid, a.ask,
          None, HistTimeout, NewsDown)
SpreadSettings(a) ==
    [FbSettings EXCEPT !.filters.spread_abs_max = a.spread_abs_max,
                       !.filters.spread_pct_max = a.spread_pct_max]

\* The schedules the calendar can hold for a day: none on a day without a
\* session; the regular times or those of an early close (13:00, post-market
\* until 17:00) on a trading day.
EARLY_CLOSE == 13 * 60
EARLY_POST == 17 * 60
SchedulesOn(date_ny) ==
    IF IsNone(get_schedule_for_date(date_ny)) THEN { None }
    ELSE { get_schedule_for_date(date_ny),
           Some([Val(get_schedule_for_date(date_ny))
                    EXCEPT !.market_close = EARLY_CLOSE, !.post = EARLY_POST]) }
PhaseMinutes ==
    { 0, PRE_OPEN - 1, PRE_OPEN, RTH_OPEN - 1, RTH_OPEN, EARLY_CLOSE - 1, EARLY_CLOSE,
      RTH_CLOSE - 1, RTH_CLOSE, EARLY_POST - 1, EARLY_POST, POST_CLOSE - 1, POST_CLOSE,
      MinPerDay - 1 }
\* Instants of a Wednesday and of the Saturday after it.
PhaseNows == { AtNy(d, m) : d \in { Today, Today + 3 }, m \in PhaseMinutes }
PhaseArgs ==
    { [now |-> n, schedule |-> sch] : n \in PhaseNows, sch \in SchedulesOn(Today) \cup { None } }

\* Bars of today and of the day before, in and out of the sessions.
DayBarPool ==
    { [ts |-> AtNy(Today, PRE_OPEN + 1), vol |-> 50],
      [ts |-> AtNy(Today, RTH_OPEN), vol |-> 800],
      [ts |-> AtNy(Today, RTH_CLOSE - 1), vol |-> 7],
      [ts |-> AtNy(Today, RTH_CLOSE), vol |-> 9],
      [ts |-> AtNy(Today - 1, RTH_OPEN), vol |-> 400] }
DayArgs == [bars : SUBSET DayBarPool, session : RvSessions, bar_size : RvBarSizes]

\* Bars of the three trading days before today (Tuesday, Monday, Friday), in
\* the first and the second half of the regular session.
CurveBarPool ==
    { [ts |-> AtNy(Today - 1, RTH_OPEN), vol |-> 100],
      [ts |-> AtNy(Today - 1, RTH_OPEN + 195), vol |-> 5],
      [ts |-> AtNy(Today - 2, RTH_OPEN + 1), vol |-> 1],
      [ts |-> AtNy(Today - 2, RTH_OPEN + 200), vol |-> 3000],
      [ts |-> AtNy(Today - 5, RTH_OPEN), vol |-> 50],
      [ts |-> AtNy(Today - 5, RTH_CLOSE - 1), vol |-> 0] }
CurveLookback == RvLookback + 1
CurveArgs ==
    [bars : SUBSET CurveBarPool, method : RvMethods,
     trim_pct : { 0, 20, TrimClampPct }, min_baseline : { 0, 60, 1000 }]

PfInit ==
    \/ pf \in [fun : {"trimmed_mean"}, arg : TrimArgs, out : {None}]
    \/ pf \in [fun : {"row"}, arg : GradeArgs, out : {None}]
    \/ pf \in [fun : {"spread"}, arg : SpreadArgs, out : {None}]
    \/ /\ pf \in [fun : {"phase"}, arg : PhaseArgs, out : {None}]
       /\ pf.arg.schedule \in SchedulesOn(DateNy(pf.arg.now))
    \/ pf \in [fun : {"day_series"}, arg : DayArgs, out : {None}]
    \/ pf \in [fun : {"curve"}, arg : CurveArgs, out : {None}]

PfApplied(out) ==
    /\ pf' = [pf EXCEPT !.out = Some(out)]
    /\ UNCHANGED <<rvVars, cacheVars, fnVars, fbVars, rtVars>>

\* rvol.py lines 78-89.
ApplyTrimmedMean ==
    /\ pf # None /\ pf.fun = "trimmed_mean" /\ IsNone(pf.out)
    /\ PfApplied(trimmed_mean(pf.arg.vals, pf.arg.trim_pct))

\* builder.py lines 347-428: the sanity flags, the grade and the score of a row.
ApplyRow ==
    /\ pf # None /\ pf.fun = "row" /\ IsNone(pf.out)
    /\ PfApplied(RowOf(pf.arg, FbSettings))

\* builder.py lines 108-113 and 295-301: the spread of a snapshot and the
\* spread stage.
ApplySpread ==
    /\ pf # None /\ pf.fun = "spread" /\ IsNone(pf.out)
    /\ PfApplied(SpreadKept(SpreadSettings(pf.arg), MetricsOf(SpreadQuote(pf.arg))))

\* market_phase.py lines 59-81, the calendar holding pf.arg.schedule for the
\* New York date of now.
ApplyPhase ==
    /\ pf # None /\ pf.fun = "phase" /\ IsNone(pf.out)
    /\ PfApplied(PhaseOf(pf.arg.now, pf.arg.schedule))

\* rvol.py lines 219-264: the series of today.
ApplyDaySeries ==
    /\ pf # None /\ pf.fun = "day_series" /\ IsNone(pf.out)
    /\ PfApplied(get_intraday_1m_volume(pf.arg.bars, Today, pf.arg.session,
                                        pf.arg.bar_size))

\* rvol.py lines 267-322: a curve of two slots built a minute after the open.
ApplyBuildCurve ==
    /\ pf # None /\ pf.fun = "curve" /\ IsNone(pf.out)
    /\ PfApplied(build_baseline_curve_from_bars(Sym, pf.arg.bars,
                     AtNy(Today, RTH_OPEN + 1), T_RTH, T_195min, CurveLookback,
                     pf.arg.method, pf.arg.trim_pct, 1, pf.arg.min_baseline,
                     [min |-> AtNy(Today, RTH_OPEN + 1), us |-> 0]))

PfNext ==
    \/ ApplyTrimmedMean
    \/ ApplyRow
    \/ ApplySpread
    \/ ApplyPhase
    \/ ApplyDaySeries
    \/ ApplyBuildCurve

----------------------------------------------------------------------------
(* Specifications *)

RvParked ==
    /\ rv_bars = {}
    /\ rv_now = AtNy(Today, RTH_OPEN + 1)
    /\ rv_cfg = [session |-> T_RTH, bar_size |-> T_195min, min_history_days |-> 1]
    /\ rv_curve = None
    /\ rv_built = None
    /\ rv_res = None

CacheParked ==
    /\ clock = [min |-> AtNy(Today, RTH_OPEN + 30), us |-> 0]
    /\ now_run = clock.min
    /\ store = {}
    /\ c_bars = {}
    /\ prevCall = None
    /\ lastCall = None
    /\ rebuilds = {}

FnParked == fn = None

FbParked ==
    /\ fb_clock = 0
    /\ fb_file = None
    /\ fb_db = None
    /\ fb_last = None

RtParked == rt = None
PfParked == pf = None

\* The RVOL engine on drawn inputs.
InitRvol == RvInit /\ CacheParked /\ FnParked /\ FbParked /\ RtParked /\ PfParked
SpecRvol == InitRvol /\ [][RvNext]_vars

\* The baseline cache under repeated calls.
InitCache == RvParked /\ CacheInit /\ FnParked /\ FbParked /\ RtParked /\ PfParked
SpecCache == InitCache /\ [][CacheNext]_vars

\* Runs of main over time, with the closed-market fallback.
InitFallback == RvParked /\ FnParked /\ FbInit /\ RtParked /\ PfParked
SpecFallback == InitFallback /\ [][FbNext]_vars

\* Runs of build_watchlist on drawn scans and settings.
InitFunnel == RvParked /\ FnInit /\ FbParked /\ RtParked /\ PfParked
SpecFunnel == InitFunnel /\ [][FnNext]_vars
\* One call of a provider against a drawn endpoint.
InitRetry == RvParked /\ CacheParked /\ FnParked /\ FbParked /\ RtInit /\ PfParked
SpecRetry == InitRetry /\ [][RtNext]_vars
\* Pure functions on drawn arguments.
InitPure == RvParked /\ CacheParked /\ FnParked /\ FbParked /\ RtParked /\ PfInit
SpecPure == InitPure /\ [][PfNext]_vars

----------------------------------------------------------------------------
(* Properties of the baseline cache *)

SameInputs(a, b) ==
    /\ a.key = b.key
    /\ a.now = b.now
    /\ a.bars = b.bars
    /\ DateNy(a.wall.min) = DateNy(b.wall.min)

\* C1: of two consecutive calls of get_or_build_baseline_curve on the same New
\* York day with the same key, bars and now, the second returns a curve with the
\* updated_at and history_days_used of the first, and performs no build (and so
\* no store).
C1_SecondCallReuses ==
    (IsSome(prevCall) /\ IsSome(lastCall) /\ SameInputs(Val(prevCall), Val(lastCall)))
    => /\ Val(lastCall).curve.updated_at = Val(prevCall).curve.updated_at
       /\ Val(lastCall).curve.history_days_used = Val(prevCall).curve.history_days_used
       /\ ~Val(lastCall).built

\* C2: for every key as the caller passes it, at most one rebuild happens per
\* New York day.
C2_OneRebuildPerDay == \A e \in rebuilds : e.n <= 1

----------------------------------------------------------------------------
(* Properties of the RVOL engine *)

\* C3: every built curve has as many slots as session_bar_count(session,
\* bar_size), whatever the bars and the number of included history days.
C3_CurveLength ==
    IsSome(rv_built)
    => Len(Val(rv_curve).baseline_cumvol) = session_bar_count(rv_cfg.session, rv_cfg.bar_size)

\* A curve built from no included history day, over a session of several slots.
C3_Witness ==
    /\ IsSome(rv_built)
    /\ Val(rv_curve).history_days_used = 0
    /\ Len(Val(rv_curve).baseline_cumvol) > 1

\* The baseline value at the result's index, read from the curve handed over.
BaselineAtIndex(curve, minute_index) ==
    IF IsSome(curve) /\ IsSome(minute_index)
       /\ Val(minute_index) + 1 \in DOMAIN Val(curve).baseline_cumvol
    THEN Some(Val(curve).baseline_cumvol[Val(minute_index) + 1])
    ELSE None

\* C4: compute_rvol_time_of_day returns normally; rvol_raw is non-null exactly
\* when the baseline value at the index is present and > 0 and cumvol_today is
\* known, and then it is cumvol_today / baseline; otherwise rvol_raw and rvol
\* are null.
C4_NoRaiseOnBaseline ==
    IsSome(rv_res)
    => LET r == Val(rv_res).res
           b == BaselineAtIndex(rv_curve, r.minute_index)
           usable == IsSome(b) /\ QLt(QInt(0), Val(b)) /\ IsSome(r.cumvol_today)
       IN /\ r.raised = "none"
          /\ IsSome(r.rvol_raw) <=> usable
          /\ usable => QEq(Val(r.rvol_raw), Q(Val(r.cumvol_today) * Val(b).d, Val(b).n))
          /\ ~usable => IsNone(r.rvol)

\* A call inside the session with today's volume known and a zero baseline.
C4_Witness ==
    /\ IsSome(rv_res)
    /\ IsSome(Val(rv_res).res.cumvol_today)
    /\ IsSome(Val(rv_res).res.baseline_cumvol)
    /\ QIsZero(Val(Val(rv_res).res.baseline_cumvol))
    /\ IsNone(Val(rv_res).res.rvol_raw)

\* C5: cap_applied holds exactly when the cap is > 0 and rvol_raw > cap, and
\* then rvol = cap; in every other case rvol equals rvol_raw.
C5_CapApplied ==
    IsSome(rv_res)
    => LET r == Val(rv_res).res
           cap == Val(rv_res).cap
           over == /\ IsSome(r.rvol_raw) /\ IsSome(cap)
                   /\ QLt(QInt(0), Val(cap)) /\ QLt(Val(cap), Val(r.rvol_raw))
       IN /\ r.cap_applied <=> over
          /\ over => r.rvol = cap
          /\ ~over => r.rvol = r.rvol_raw

\* A ratio above a positive cap.
C5_Witness ==
    /\ IsSome(rv_res)
    /\ Val(rv_res).res.cap_applied
    /\ IsSome(Val(rv_res).res.rvol_raw)
    /\ QLt(QInt(1), Val(Val(rv_res).res.rvol_raw))

\* The session window of the configuration, in minutes of the New York day.
InWindow(now, session) ==
    LET open == IF Upper(Strip(session)) = T_RTHPRE THEN PRE_OPEN ELSE RTH_OPEN
    IN open <= ClockNy(now) /\ ClockNy(now) < RTH_CLOSE

\* C6: outside the session's [start, end) window the result has session_mismatch,
\* no minute_index, no cumulative volume and no ratio; inside it has no
\* session_mismatch and a minute_index.
C6_SessionMismatch ==
    IsSome(rv_res)
    => LET r == Val(rv_res).res IN
       IF InWindow(rv_now, rv_cfg.session)
       THEN ~r.session_mismatch /\ IsSome(r.minute_index)
       ELSE /\ r.session_mismatch
            /\ IsNone(r.minute_index)
            /\ IsNone(r.cumvol_today)
            /\ IsNone(r.rvol_raw)
            /\ IsNone(r.rvol)

\* A call at the closing minute, with bars of today and a curve at hand.
C6_Witness ==
    /\ IsSome(rv_res)
    /\ ClockNy(rv_now) = RTH_CLOSE
    /\ IsSome(rv_curve)
    /\ \E b \in rv_bars : DateNy(b.ts) = Today
    /\ Val(rv_res).res.session_mismatch

----------------------------------------------------------------------------
(* Properties of the funnel of build_watchlist *)

FnDone == fn # None /\ fn.phase = "done"
FnScanMeta == Val(fn.payload).scan
FnSymbols == Val(fn.payload).symbols

\* C7: in every payload of build_watchlist the funnel counts are ordered:
\* scan.final <= scan.filtered <= scan.prelim <= scan.candidates <=
\* scan.raw_candidates.
C7_FunnelCounts ==
    FnDone =>
        /\ FnScanMeta.final <= FnScanMeta.filtered
        /\ FnScanMeta.filtered <= FnScanMeta.prelim
        /\ FnScanMeta.prelim <= FnScanMeta.candidates
        /\ FnScanMeta.candidates <= FnScanMeta.raw_candidates

\* A run where the OTC/Pink exclusion, the float filter and the final filters
\* each remove a candidate.
C7_Witness ==
    /\ FnDone
    /\ FnScanMeta.final < FnScanMeta.filtered
    /\ FnScanMeta.filtered < FnScanMeta.prelim
    /\ FnScanMeta.candidates < FnScanMeta.raw_candidates

RECURSIVE SumOver(_, _)
SumOver(f, D) ==
    IF D = {} THEN 0 ELSE LET d == CHOOSE x \in D : TRUE IN f[d] + SumOver(f, D \ {d})
FnDropSum == SumOver(FnScanMeta.prelim_drop_reasons, DropNames)

\* The stages of the snapshot filter, each on its own.
FailsLastPrice(q) == IsNone(q.last) \/ QLe(Val(q.last), QInt(0))
FailsPriceRange(f, q) ==
    IsSome(q.last) /\ ~(QLe(f.price_min, Val(q.last)) /\ QLe(Val(q.last), f.price_max))
FailsPrevClose(q) == IsNone(q.prev_close) \/ QLe(Val(q.prev_close), QInt(0))
FailsChange(f, q) ==
    /\ IsSome(q.last) /\ IsSome(q.prev_close) /\ QLt(QInt(0), Val(q.prev_close))
    /\ QLt(QMul(QSub(Val(q.last), Val(q.prev_close)), QInt(100)),
           QMul(f.change_min_pct, Val(q.prev_close)))
FailsVolume(f, q) == IsNone(q.vol_today) \/ Val(q.vol_today) < f.volume_min
VolumeCounter(q) == IF IsNone(q.vol_today) THEN "missing_volume" ELSE "volume_below_min"
StagesFailed(f, q) ==
    Cardinality({ k \in 1..5 :
        \/ k = 1 /\ FailsLastPrice(q)
        \/ k = 2 /\ FailsPriceRange(f, q)
        \/ k = 3 /\ FailsPrevClose(q)
        \/ k = 4 /\ FailsChange(f, q)
        \/ k = 5 /\ FailsVolume(f, q) })

\* The counter of the first stage q fails in the order last price, price
\* range, previous close, change%, volume; "pass" when it fails none.
FirstFailedCounter(f, q) ==
    IF FailsLastPrice(q) THEN "invalid_last"
    ELSE IF FailsPriceRange(f, q) THEN "price_out_of_range"
    ELSE IF FailsPrevClose(q) THEN "missing_prev_close"
    ELSE IF FailsChange(f, q) THEN "change_below_min"
    ELSE IF FailsVolume(f, q) THEN VolumeCounter(q)
    ELSE "pass"

\* The candidates the snapshot loop runs over.
FnScanned == ExcludeOtc(fn.settings, fn.raw)

\* C8 as stated: the drop-reason counters sum to the raw scan count minus the
\* prelim count.
C8_SumFromRawCount ==
    FnDone => FnDropSum = FnScanMeta.raw_candidates - FnScanMeta.prelim

\* C8: the drop-reason counters sum to scan.candidates - scan.prelim, the count
\* after the OTC/Pink exclusion (raw_candidates - excluded_otc_pink), and each
\* counter is the number of candidates whose first failed stage is its own.
C8_DropCounters ==
    FnDone =>
        /\ FnDropSum = FnScanMeta.candidates - FnScanMeta.prelim
        /\ FnScanMeta.candidates = FnScanMeta.raw_candidates - FnScanMeta.excluded_otc_pink
        /\ \A r \in DropNames :
              FnScanMeta.prelim_drop_reasons[r] =
                  Cardinality({ i \in DOMAIN FnScanned :
                      FirstFailedCounter(fn.settings.filters, FnScanned[i]) = r })

\* A run where the exclusion removes a candidate and a rejected candidate fails
\* more than one stage.
C8_Witness ==
    /\ FnDone
    /\ FnScanMeta.excluded_otc_pink > 0
    /\ FnDropSum > 0
    /\ \E i \in DOMAIN FnScanned :
          /\ FailsPriceRange(fn.settings.filters, FnScanned[i])
          /\ StagesFailed(fn.settings.filters, FnScanned[i]) > 1

\* C9: the result rows are non-decreasing in grade rank and, within a grade,
\* non-increasing in score.
C9_Sorted ==
    FnDone =>
        \A i \in 1..(Len(FnSymbols) - 1) :
            /\ GradeRank(FnSymbols[i].grade) <= GradeRank(FnSymbols[i + 1].grade)
            /\ GradeRank(FnSymbols[i].grade) = GradeRank(FnSymbols[i + 1].grade)
               => QLe(FnSymbols[i + 1].score, FnSymbols[i].score)

\* Rows of two grades, two of one grade with different scores, and a row that
\* the sort moved behind one of smaller change%.
C9_Witness ==
    /\ FnDone
    /\ \E i \in 1..(Len(FnSymbols) - 1) :
          GradeRank(FnSymbols[i].grade) < GradeRank(FnSymbols[i + 1].grade)
    /\ \E i \in 1..(Len(FnSymbols) - 1) :
          /\ FnSymbols[i].grade = FnSymbols[i + 1].grade
          /\ QLt(FnSymbols[i + 1].score, FnSymbols[i].score)
    /\ \E i \in 1..(Len(FnSymbols) - 1) :
          QLt(Val(FnSymbols[i].changePct), Val(FnSymbols[i + 1].changePct))

----------------------------------------------------------------------------
(* Properties of the closed-market fallback *)

\* C10: in last_ok mode a fallback result carries the symbols of a prior
\* successful output only if that output was generated at most stale_max_hours
\* before now.
C10_NoStaleSymbols ==
    (/\ IsSome(fb_last)
     /\ Val(fb_last).mode = T_last_ok
     /\ Val(fb_last).payload.fallback_used
     /\ Val(fb_last).payload.symbols # <<>>
     /\ IsSome(Val(fb_last).payload.original)
     /\ ~Val(Val(fb_last).payload.original).fallback_used)
    => Val(fb_last).now - Val(Val(fb_last).payload.original).generated_utc
          <= StaleMaxHours * HourMin

\* What the run recorded in fb_last found: nothing scanned, nothing left at the
\* end of the funnel, or the flag set with no valid quote at all.
FbNothing ==
    \/ Val(fb_last).candidates = 0
    \/ Len(Val(fb_last).built.symbols) = 0
    \/ /\ Val(fb_last).require_active
       /\ Val(fb_last).candidates > 0
       /\ Val(fb_last).invalid_last >= Val(fb_last).candidates

FbWroteBuilt == Val(fb_last).payload = Val(fb_last).built

\* C11 as stated: main writes a fallback payload only when the market phase is
\* CLOSED and the run found nothing; every other run writes the built payload
\* unchanged.
C11_OnlyWhenPhaseClosed ==
    IsSome(fb_last) =>
        IF Val(fb_last).phase = "CLOSED" /\ FbNothing
        THEN Val(fb_last).payload.fallback_used
        ELSE FbWroteBuilt

\* C11 amended: main writes a fallback payload exactly when the run is treated
\* as closed (PROFILE is "closed" or the market phase is CLOSED) and the run
\* found nothing; every other run writes the built payload unchanged.
C11_OnlyWhenTreatedClosed ==
    IsSome(fb_last) =>
        IF (Val(fb_last).profile_closed \/ Val(fb_last).phase = "CLOSED") /\ FbNothing
        THEN Val(fb_last).payload.fallback_used
        ELSE FbWroteBuilt

\* A run in the closed market whose scan had candidates, none of which reached
\* the final list, wrote a fallback payload.
C11_Witness ==
    /\ IsSome(fb_last)
    /\ Val(fb_last).phase = "CLOSED"
    /\ ~Val(fb_last).profile_closed
    /\ Val(fb_last).candidates > 0
    /\ Len(Val(fb_last).built.symbols) = 0
    /\ Val(fb_last).payload.fallback_used


\* The last run engaged the fallback in mode last_ok and found a file no older
\* than the bound.
FbLastOkOnFile ==
    /\ IsSome(fb_last)
    /\ Val(fb_last).payload.fallback_used
    /\ Val(fb_last).mode = T_last_ok
    /\ IsSome(Val(fb_last).file)
    /\ Val(fb_last).now - Val(Val(fb_last).file).mtime <= StaleMaxHours * HourMin

FbFileData == Val(Val(fb_last).file).data

\* The payload the file stands for: its content, or the `original` a fallback
\* payload carries.
FbFilePayload ==
    IF FbFileData.fallback_used /\ IsSome(FbFileData.original)
    THEN Val(FbFileData.original)
    ELSE FbFileData

\* C12 as stated: in mode last_ok with a file within the bound, the fallback
\* payload has fallback_used, the given reason, the symbols and txt_symbols of
\* the file, and `original` equal to the content of the file.
C12_OriginalIsFile ==
    FbLastOkOnFile =>
        /\ Val(fb_last).payload.fallback_reason = Val(fb_last).reason
        /\ Val(fb_last).payload.symbols = FbFileData.symbols
        /\ Val(fb_last).payload.txt_symbols = FbFileData.txt_symbols
        /\ Val(fb_last).payload.original = Some(FbFileData)

\* C12 amended: in mode last_ok with a file within the bound, the fallback
\* payload has fallback_used, the given reason, and `original`, symbols and
\* txt_symbols taken from the last payload, which is the content of the file
\* or, when the file is itself a fallback payload with an original, that
\* original.
C12_LastOkFromFile ==
    FbLastOkOnFile =>
        /\ Val(fb_last).payload.fallback_reason = Val(fb_last).reason
        /\ Val(fb_last).payload.symbols = FbFilePayload.symbols
        /\ Val(fb_last).payload.txt_symbols = FbFilePayload.txt_symbols
        /\ Val(fb_last).payload.original = Some(FbFilePayload)

\* A fallback in mode last_ok served the symbols of a file exactly as old as
\* the bound.
C12_Witness ==
    /\ FbLastOkOnFile
    /\ Val(fb_last).now - Val(Val(fb_last).file).mtime = StaleMaxHours * HourMin
    /\ ~FbFileData.fallback_used
    /\ Len(FbFileData.symbols) > 0
    /\ Val(fb_last).payload.symbols = FbFileData.symbols


\* The scanned candidates that pass the price, change, volume and float
\* filters, by their place in the scan.
FnPassesFloat(f, q) == IsNone(q.float_shares) \/ Val(q.float_shares) <= f.float_max
FnSurvivors ==
    { i \in DOMAIN FnScanned :
        /\ FirstFailedCounter(fn.settings.filters, FnScanned[i]) = "pass"
        /\ FnPassesFloat(fn.settings.filters, FnScanned[i]) }
FnChange(q) == QDiv(QMul(QSub(Val(q.last), Val(q.prev_close)), QInt(100)), Val(q.prev_close))
\* The survivors of strictly greater change% than survivor i.
FnAbove(i) ==
    { j \in FnSurvivors : QLt(FnChange(FnScanned[i]), FnChange(FnScanned[j])) }
FnFetches == Val(fn.payload).hist_fetches
FnComputed == Val(fn.payload).rvol_computed
FnIndexOf(symbol) == CHOOSE i \in DOMAIN FnScanned : FnScanned[i].symbol = symbol

\* C13: a run fetches the history of at most max_rvol_symbols symbols, each
\* fetched once, each a survivor of the price, change, volume and float filters
\* with fewer than max_rvol_symbols survivors of greater change% above it, and
\* RVOL is computed only for symbols whose history was fetched.
C13_FetchesWithinTopK ==
    FnDone =>
        /\ Len(FnFetches) <= fn.settings.filters.max_rvol_symbols
        /\ \A a, b \in DOMAIN FnFetches : FnFetches[a] = FnFetches[b] => a = b
        /\ \A a \in DOMAIN FnFetches :
              /\ \E i \in FnSurvivors : FnScanned[i].symbol = FnFetches[a]
              /\ FnIndexOf(FnFetches[a]) \in FnSurvivors
              /\ Cardinality(FnAbove(FnIndexOf(FnFetches[a])))
                    < fn.settings.filters.max_rvol_symbols
        /\ \A c \in DOMAIN FnComputed : \E a \in DOMAIN FnFetches : FnFetches[a] = FnComputed[c]

\* A run with K = 1 where two candidates survive the filters, a third is
\* rejected by them, and the one fetch made is followed by a computation.
C13_Witness ==
    /\ FnDone
    /\ fn.settings.filters.max_rvol_symbols = 1
    /\ Cardinality(FnSurvivors) = 2
    /\ Len(FnScanned) = 3
    /\ Len(FnFetches) = 1
    /\ Len(FnComputed) = 1


\* The Metrics the final filters run over, and whether a symbol reached the
\* result rows.
FnFiltered == Val(fn.payload).filtered_metrics
FnInFinal(symbol) == \E r \in DOMAIN FnSymbols : FnSymbols[r].symbol = symbol
FnRvolMissing(m) == IsNone(m.rvol_raw) /\ IsNone(m.rvol)
FnRvolBelowMin(m) == IsSome(m.rvol_raw) /\ QLt(Val(m.rvol_raw), fn.settings.filters.rvol_min)
FnPermissive == fn.settings.rvol_permissive_if_not_live /\ fn.settings.ib_market_data_type # 1
FnSpreadOk(m) ==
    /\ QLt(QInt(0), fn.settings.filters.spread_abs_max)
       => (IsSome(m.spread) /\ QLe(Val(m.spread), fn.settings.filters.spread_abs_max))
    /\ QLt(QInt(0), fn.settings.filters.spread_pct_max)
       => (IsSome(m.spread_pct) /\ QLe(Val(m.spread_pct), fn.settings.filters.spread_pct_max))

\* C14: a candidate whose RVOL ratio is known and below rvol_min never reaches
\* the result; one whose RVOL is missing never reaches it unless the permissive
\* policy is on and the feed is not live, and then it reaches the result
\* whenever the spread filters keep it.
C14_RvolStage ==
    FnDone =>
        \A i \in DOMAIN FnFiltered :
            /\ FnRvolBelowMin(FnFiltered[i]) => ~FnInFinal(FnFiltered[i].symbol)
            /\ FnRvolMissing(FnFiltered[i]) /\ ~FnPermissive
                  => ~FnInFinal(FnFiltered[i].symbol)
            /\ FnRvolMissing(FnFiltered[i]) /\ FnPermissive /\ FnSpreadOk(FnFiltered[i])
                  => FnInFinal(FnFiltered[i].symbol)

\* A run under the permissive policy on a delayed feed where a candidate
\* without RVOL is in the result and one with a known ratio below rvol_min is
\* not.
C14_Witness ==
    /\ FnDone
    /\ FnPermissive
    /\ \E i \in DOMAIN FnFiltered :
          FnRvolMissing(FnFiltered[i]) /\ FnInFinal(FnFiltered[i].symbol)
    /\ \E i \in DOMAIN FnFiltered :
          FnRvolBelowMin(FnFiltered[i]) /\ ~FnInFinal(FnFiltered[i].symbol)


\* The fetched symbols whose fetch timed out.
FnTimedOut == { FnFetches[a] : a \in { b \in DOMAIN FnFetches :
                                          FnScanned[FnIndexOf(FnFetches[b])].hist.timeout } }
FnNoRvol(m) ==
    /\ IsNone(m.rvol) /\ IsNone(m.rvol_raw) /\ IsNone(m.rvol_score)
    /\ IsNone(m.rvol_days_valid) /\ IsNone(m.rvol_cap_applied)
    /\ IsNone(m.rvol_session_mismatch)
FnRowsOf(rows, symbols) == { r \in rows : r.symbol \in symbols }
FnBarsWritten == Val(fn.payload).bars_written
FnMin(a, b) == IF a < b THEN a ELSE b

\* The same scan with every fetch answered, yesterday's and today's first slot
\* holding 1000 shares each.
FnAnswered(q) == IF q.hist.timeout THEN [q EXCEPT !.hist = HistBars(1000)] ELSE q
FnRawAnswered == [i \in DOMAIN fn.raw |-> FnAnswered(fn.raw[i])]

\* What the run did for the symbols that did not time out is what the run on
\* the answered scan did for them: their Metrics, their rows in the curve
\* store, their fetches and computations.
FnSameForOthers(alt) ==
    /\ Len(alt.filtered_metrics) = Len(FnFiltered)
    /\ \A i \in DOMAIN FnFiltered :
          FnFiltered[i].symbol \notin FnTimedOut => alt.filtered_metrics[i] = FnFiltered[i]
    /\ alt.hist_fetches = FnFetches
    /\ SelectSeq(alt.rvol_computed, LAMBDA x : x \notin FnTimedOut) = FnComputed
    /\ { r \in alt.rows_after : r.symbol \notin FnTimedOut } = Val(fn.payload).rows_after

FnNewsRequests == Val(fn.payload).news_requests
FnRestrictedAt ==
    { a \in DOMAIN FnNewsRequests :
        FnScanned[FnIndexOf(FnNewsRequests[a])].news.status = 402 }

\* C16: in a run where a news request is answered with HTTP 402, that request
\* is the last news request of the run and no symbol is asked for twice; the
\* payload reports news enabled = false with reason fmp_plan_restricted; every
\* result row has catalystError restricted_endpoint_402 and no hasCatalyst
\* verdict.
C16_RestrictedDisablesNews ==
    FnDone /\ FnRestrictedAt # {} =>
        /\ FnRestrictedAt = { Len(FnNewsRequests) }
        /\ \A a, b \in DOMAIN FnNewsRequests :
              FnNewsRequests[a] = FnNewsRequests[b] => a = b
        /\ ~Val(fn.payload).news.enabled
        /\ Val(fn.payload).news.reason_if_disabled = "fmp_plan_restricted"
        /\ \A r \in DOMAIN FnSymbols :
              /\ FnSymbols[r].catalystError = "restricted_endpoint_402"
              /\ IsNone(FnSymbols[r].hasCatalyst)

\* A run of three result rows where the second news request was answered with
\* 402: one symbol was asked before it and one was never asked.
C16_Witness ==
    /\ FnDone
    /\ Len(FnSymbols) = 3
    /\ Len(FnNewsRequests) = 2
    /\ FnRestrictedAt = {2}
    /\ ~Val(fn.payload).news.enabled


RtReturned == rt # None /\ rt.phase = "returned"
\* The requests sent so far that failed with a timeout, a connection error or
\* HTTP 429.
RtFailedRetryably == { k \in 1..rt.attempt : rt.answers[k] \in Retryable }

\* C17 as stated, for a call that has returned: whichever the provider, at
\* most max_retries requests were sent; a request that failed with a timeout,
\* a connection error or HTTP 429 was followed by another request unless it
\* was the max_retries-th; after each such failure the call slept
\* backoff_base * 2^(attempt - 1) plus a jitter; and a call whose requests all
\* failed that way returns a missing value.
C17_BothProvidersRetry ==
    RtReturned =>
        /\ rt.attempt <= rt.max_retries
        /\ \A k \in RtFailedRetryably : k < rt.max_retries => k < rt.attempt
        /\ \A k \in RtFailedRetryably :
              \E i \in DOMAIN rt.sleeps :
                  /\ rt.sleeps[i].after = k
                  /\ rt.sleeps[i].delay = BackoffBaseMs * Pow2(k - 1)
        /\ RtFailedRetryably = 1..rt.attempt => rt.result = "none"


PfRow == pf # None /\ pf.fun = "row" /\ IsSome(pf.out)
\* Previous close below the floor of 1.00 and change% above the ceiling of 150.
PfSplitLike ==
    /\ QLt(Val(pf.arg.prev_close), QInt(1))
    /\ QLt(QInt(150), Val(pf.arg.change_pct))
\* The numeric thresholds of grade A: change% >= 15, RVOL >= 5, volume >= 1M,
\* float within float_max, spread within 5 % of the last price.
PfQualifiesForA ==
    /\ QLe(QInt(15), Val(pf.arg.change_pct))
    /\ IsSome(pf.arg.rvol) /\ QLe(QInt(5), Val(pf.arg.rvol))
    /\ IsSome(pf.arg.volume_today) /\ Val(pf.arg.volume_today) >= 1000000
    /\ IsSome(pf.arg.float_shares) /\ Val(pf.arg.float_shares) <= 10000000
    /\ IsSome(pf.arg.spread)
    /\ QLe(Val(pf.arg.spread), QMul(Val(pf.arg.last), Cents(5)))

\* C18: a row with suspectCorporateAction or suspectData set has a grade no
\* better than C, and suspectCorporateAction is set whenever the previous
\* close is below the floor and change% is above the ceiling.
C18_SuspectCappedAtC ==
    PfRow =>
        /\ Val(pf.out).suspectCorporateAction \/ Val(pf.out).suspectData
              => Val(pf.out).grade \in {"C", "D"}
        /\ PfSplitLike => Val(pf.out).suspectCorporateAction

\* Scenario D: previous close 0.50, last 1.40 (change% 180), every threshold
\* of grade A met, and the row graded C.
C18_Witness ==
    /\ PfRow
    /\ pf.arg.prev_close = Some(Q(1, 2))
    /\ QEq(Val(pf.arg.change_pct), QInt(180))
    /\ PfQualifiesForA
    /\ Val(pf.out).suspectCorporateAction
    /\ Val(pf.out).grade = "C"

PfTrim == pf # None /\ pf.fun = "trimmed_mean" /\ IsSome(pf.out)
PfMeanOfVals == Q(SumSeq(pf.arg.vals), Len(pf.arg.vals))
\* The values cut at each end under the clamp: floor(0.49 * n).
PfClampCut == (Len(pf.arg.vals) * 49) \div 100
PfMiddle ==
    SubSeq(sorted(pf.arg.vals), PfClampCut + 1, Len(pf.arg.vals) - PfClampCut)

RvSessionOpen == IF Upper(Strip(rv_cfg.session)) = T_RTHPRE THEN PRE_OPEN ELSE RTH_OPEN
RvSlot == (ClockNy(rv_now) - RvSessionOpen) \div parse_bar_minutes(rv_cfg.bar_size)
RvTodaySeries ==
    get_intraday_1m_volume(rv_bars, DateNy(rv_now), rv_cfg.session, rv_cfg.bar_size)
RvCumvolAt(series, slot) ==
    IF IsSome(series) /\ slot + 1 \in DOMAIN Val(series).cumvol_1m
    THEN Some(Val(series).cumvol_1m[slot + 1])
    ELSE None

\* C20 as stated: inside the session window the minute_index of the result is
\* the slot of now in units of the bar size, and cumvol_today and
\* baseline_cumvol are the values of today's series and of the curve at that
\* slot.
C20_IndexIsSlot ==
    IsSome(rv_res) /\ InWindow(rv_now, rv_cfg.session) =>
        /\ Val(rv_res).res.minute_index = Some(RvSlot)
        /\ Val(rv_res).res.cumvol_today = RvCumvolAt(RvTodaySeries, RvSlot)
        /\ Val(rv_res).res.baseline_cumvol = BaselineAtIndex(rv_curve, Some(RvSlot))

\* The bars of today inside the session window of the run.
RvTodayInSession ==
    InSessionBars(rv_bars, DateNy(rv_now), session_times(rv_cfg.session))

\* C21 as stated: when now is inside the session window and today has no bar
\* inside the session window yet, the result reports cumvol_today = 0, not a
\* missing value, and with a positive baseline at the index a ratio of 0.
C21_NoBarsIsZero ==
    IsSome(rv_res) /\ InWindow(rv_now, rv_cfg.session) /\ RvTodayInSession = {} =>
        /\ Val(rv_res).res.cumvol_today = Some(0)
        /\ (IsSome(Val(rv_res).res.baseline_cumvol)
              /\ QLt(QInt(0), Val(Val(rv_res).res.baseline_cumvol)))
           => /\ IsSome(Val(rv_res).res.rvol)
              /\ QIsZero(Val(Val(rv_res).res.rvol))

\* C22 as stated: in every result of compute_rvol_time_of_day, session-mismatch
\* results and calls with no curve included, insufficient_history equals
\* history_days_used < max(1, min_history_days).
C22_InsufficientHistory ==
    IsSome(rv_res) =>
        Val(rv_res).res.insufficient_history
            = (Val(rv_res).res.history_days_used < Max(1, rv_cfg.min_history_days))

\* The prior trading days of the run with at least one bar inside the session
\* window, in order.
RvDayKept(d) == InSessionBars(rv_bars, d, session_times(rv_cfg.session)) # {}
RvHistoryDays ==
    SelectSeq(previous_trading_days(rv_now, Val(rv_built).lookback_days), RvDayKept)
\* The cumulative volume of day d at slot t: the volume of its in-session bars
\* whose slot is at most t.
RvDayCumAt(d, t) ==
    SumVol({b \in InSessionBars(rv_bars, d, session_times(rv_cfg.session)) :
               SlotOfBar(b, RvSessionOpen, parse_bar_minutes(rv_cfg.bar_size)) <= t})
RvDaySamples(days, t) == [i \in 1..Len(days) |-> RvDayCumAt(days[i], t)]
\* The configured reduction of the samples, 0 when there is none.
RvReduced(vals) ==
    IF vals = <<>> THEN QInt(0)
    ELSE IF Val(rv_built).method = T_mean THEN Val(mean(vals))
    ELSE IF Val(rv_built).method = T_median THEN Val(median(vals))
    ELSE Val(trimmed_mean(vals, Val(rv_built).trim_pct))
RvSlotIsFloored(days, t) ==
    QEq(Val(rv_curve).baseline_cumvol[t + 1],
        QMax(QInt(Val(rv_built).min_baseline), RvReduced(RvDaySamples(days, t))))
RvCurveIsReduction(days) ==
    /\ Val(rv_curve).history_days_used = Len(days)
    /\ \A t \in 0..(Len(Val(rv_curve).baseline_cumvol) - 1) : RvSlotIsFloored(days, t)

\* C23: for every slot t of a built curve, baseline_cumvol[t] is
\* max(min_baseline, R), R being the configured reduction (mean, median or
\* trimmed mean) of the cumulative volume at slot t over exactly the prior
\* trading days with at least one bar inside the session window, and
\* history_days_used is the number of those days.
C23_BaselineIsFlooredReduction ==
    IsSome(rv_built) /\ IsSome(rv_curve) => RvCurveIsReduction(RvHistoryDays)

\* Two prior days with cumulative volume 400 at slot 1 (250 on average at
\* slot 0), the mean method and floor 0: baseline[1] = 400.
C23_Witness ==
    /\ IsSome(rv_built) /\ IsSome(rv_curve)
    /\ Val(rv_built).method = T_mean
    /\ Val(rv_built).min_baseline = 0
    /\ rv_cfg.session = T_RTH /\ rv_cfg.bar_size = T_30mins
    /\ Len(RvHistoryDays) = 2
    /\ RvDayCumAt(Today - 1, 1) = 400 /\ RvDayCumAt(Today - 2, 1) = 400
    /\ Val(rv_curve).history_days_used = 2
    /\ QEq(Val(rv_curve).baseline_cumvol[1], QInt(250))
    /\ QEq(Val(rv_curve).baseline_cumvol[2], QInt(400))

\* The value of the curve at the index the result reports, None when the curve
\* is missing or does not hold the index.
RvBaselineRead == BaselineAtIndex(rv_curve, Val(rv_res).res.minute_index)
RvRes == Val(rv_res).res

PfSpread == pf # None /\ pf.fun = "spread" /\ IsSome(pf.out)
PfRejected == ~Val(pf.out)
\* spread = ask - bid and spread% = spread / last, where a bid and an ask are
\* quoted.
PfQuoted == IsSome(pf.arg.bid) /\ IsSome(pf.arg.ask)
PfSpreadVal == QSub(Val(pf.arg.ask), Val(pf.arg.bid))
PfSpreadPct == QDiv(PfSpreadVal, Val(pf.arg.last))
PfAbsOn == QLt(QInt(0), pf.arg.spread_abs_max)
PfPctOn == QLt(QInt(0), pf.arg.spread_pct_max)
PfExceeded ==
    /\ PfQuoted
    /\ \/ PfAbsOn /\ QLt(pf.arg.spread_abs_max, PfSpreadVal)
       \/ PfPctOn /\ QLt(pf.arg.spread_pct_max, PfSpreadPct)
\* The spread is missing: a bid or an ask is missing or not positive.
PfSpreadMissing ==
    \/ ~PfQuoted
    \/ ~QLt(QInt(0), Val(pf.arg.bid))
    \/ ~QLt(QInt(0), Val(pf.arg.ask))
PfExample ==
    /\ pf.arg.bid = Some(Cents(990))
    /\ pf.arg.ask = Some(Cents(1010))
    /\ pf.arg.last = Some(Cents(1010))

\* C25 as stated: a candidate is rejected by the spread stage exactly when a
\* configured maximum (> 0) is exceeded: spread > spread_abs_max or
\* spread% > spread_pct_max.
C25_RejectedIffExceeded ==
    PfSpread => (PfRejected <=> PfExceeded)

\* C25 amended: a candidate is rejected by the spread stage exactly when some
\* maximum is configured (> 0) and either the spread is missing (a bid or an
\* ask missing or not positive) or that maximum is exceeded; bid 9.90,
\* ask 10.10, last 10.10 passes with spread_pct_max = 0.05 alone and fails
\* with spread_abs_max = 0.10.
C25_RejectedIffExceededOrMissing ==
    PfSpread =>
        /\ PfRejected <=>
             \/ (PfAbsOn \/ PfPctOn) /\ PfSpreadMissing
             \/ ~PfSpreadMissing /\ PfExceeded
        /\ (PfExample /\ ~PfAbsOn /\ pf.arg.spread_pct_max = Cents(5)) => ~PfRejected
        /\ (PfExample /\ pf.arg.spread_abs_max = Cents(10)) => PfRejected

\* The example under spread_abs_max = 0.10 and spread_pct_max = 0.05: the
\* spread of 0.20 is within 5 % of the last price and above 0.10.
C25_Witness ==
    /\ PfSpread /\ PfExample
    /\ pf.arg.spread_abs_max = Cents(10)
    /\ pf.arg.spread_pct_max = Cents(5)
    /\ ~QLt(pf.arg.spread_pct_max, PfSpreadPct)
    /\ PfRejected

PfPhase == pf # None /\ pf.fun = "phase" /\ IsSome(pf.out)
\* The New York clock minute of now and the schedule of its day.
PfMinute == ClockNy(pf.arg.now)
PfSchedule == Val(pf.arg.schedule)
PfOrdered ==
    /\ PfSchedule.pre < PfSchedule.market_open
    /\ PfSchedule.market_open < PfSchedule.market_close
    /\ PfSchedule.market_close < PfSchedule.post

\* C26: on a trading day whose schedule has pre < market_open < market_close
\* < post, get_market_phase returns PREMARKET for pre <= now < market_open,
\* OPEN for market_open <= now < market_close, POST for market_close <= now
\* < post and CLOSED for now < pre or now >= post; on a day with no schedule it
\* returns CLOSED at every time.
C26_PhaseBounds ==
    PfPhase =>
        /\ IsNone(pf.arg.schedule) => Val(pf.out) = "CLOSED"
        /\ (IsSome(pf.arg.schedule) /\ PfOrdered) =>
             /\ (Val(pf.out) = "PREMARKET")
                  = (PfSchedule.pre <= PfMinute /\ PfMinute < PfSchedule.market_open)
             /\ (Val(pf.out) = "OPEN")
                  = (PfSchedule.market_open <= PfMinute
                       /\ PfMinute < PfSchedule.market_close)
             /\ (Val(pf.out) = "POST")
                  = (PfSchedule.market_close <= PfMinute /\ PfMinute < PfSchedule.post)
             /\ (Val(pf.out) = "CLOSED")
                  = (PfMinute < PfSchedule.pre \/ PfSchedule.post <= PfMinute)

\* now at the close of an early-close day: POST.
C26_Witness ==
    /\ PfPhase
    /\ IsSome(pf.arg.schedule) /\ PfOrdered
    /\ PfSchedule.market_close = EARLY_CLOSE
    /\ PfMinute = PfSchedule.market_close
    /\ Val(pf.out) = "POST"

\* The payload the last run wrote is a fallback that reuses an earlier payload.
FbReused ==
    /\ IsSome(fb_last)
    /\ Val(fb_last).payload.fallback_used
    /\ IsSome(Val(fb_last).payload.original)

\* C27 as stated: over any sequence of runs writing the output file, the
\* payload a last_ok or research fallback reuses (its original field) is the
\* output of a run without fallback, never a fallback payload written before.
C27_OriginalNeverFallback ==
    FbReused => ~Val(Val(fb_last).payload.original).fallback_used

\* The run's now is outside the configured RVOL session window.
FnOutsideWindow == ~InWindow(now_run, fn.settings.rvol.session)

\* C28: in a run whose now is outside the configured RVOL session window and
\* in which RVOL is required (permissive policy off, or live market data), no
\* candidate reaches the final result, whatever the quotes, floats and bars.
C28_NoFinalOutsideWindow ==
    FnDone /\ FnOutsideWindow /\ ~FnPermissive =>
        /\ FnScanMeta.final = 0
        /\ FnSymbols = <<>>

\* At the close, RVOL required: candidates pass the cheap filters, the RVOL
\* loop marks one as a session mismatch, and the final list is empty.
C28_Witness ==
    /\ FnDone /\ FnOutsideWindow /\ ~FnPermissive
    /\ Len(FnFiltered) >= 2
    /\ \E i \in DOMAIN FnFiltered :
          FnFiltered[i].rvol_session_mismatch = Some(TRUE)
    /\ FnScanMeta.final = 0

PfDay == pf # None /\ pf.fun = "day_series" /\ IsSome(pf.out)
\* The bars of the date whose New York clock time lies in [start, end).
PfDayInSession == InSessionBars(pf.arg.bars, Today, session_times(pf.arg.session))
PfSeries == Val(Val(pf.out))
PfLast(seq) == seq[Len(seq)]

\* C29 as stated: in every day series built by get_intraday_1m_volume, for
\* either session and any bar size, every bar of the date inside [start, end)
\* is counted in exactly one slot: the cumulative array is the running sum of
\* the slot volumes and its last element is the sum of the volumes of all
\* in-session bars of the date.
C29_EveryBarCounted ==
    PfDay /\ IsSome(Val(pf.out)) =>
        /\ PfSeries.cumvol_1m = RunningSum(PfSeries.vol_1m, 0)
        /\ PfLast(PfSeries.cumvol_1m) = SumVol(PfDayInSession)

PfCurve == pf # None /\ pf.fun = "curve" /\ IsSome(pf.out)
PfBaseline == Val(pf.out).baseline_cumvol
PfNonNegative == \A b \in pf.arg.bars : b.vol >= 0

\* C30: in every curve built by build_baseline_curve_from_bars from bars with
\* non-negative volumes, with any method (mean, median, trimmed mean), any
\* trim fraction and any floor, baseline_cumvol is non-decreasing in the slot
\* index.
C30_BaselineNonDecreasing ==
    PfCurve /\ PfNonNegative =>
        \A t \in 1..(Len(PfBaseline) - 1) : QLe(PfBaseline[t], PfBaseline[t + 1])

\* Three history days, the median above the floor at both slots and growing
\* from the first slot to the second.
C30_Witness ==
    /\ PfCurve /\ PfNonNegative
    /\ pf.arg.method = T_median
    /\ Val(pf.out).history_days_used = 3
    /\ Len(PfBaseline) = 2
    /\ QLt(QInt(pf.arg.min_baseline), PfBaseline[1])
    /\ QLt(PfBaseline[1], PfBaseline[2])


====
